---- MODULE Spec2Model ----
(***************************************************************************)
(* PodCraft library sync: the recording status state machine, the          *)
(* reconciliation engine (path-first, hash-fallback), the missing-         *)
(* transition guard and the systemic probe-failure guard.                  *)
(*                                                                         *)
(* Strings that the code only compares for equality (paths, hashes,        *)
(* statuses) are TLA+ strings.  Recording ids are also sorted by the code  *)
(* (Array.prototype.sort without comparator: ascending UTF-16 code units), *)
(* so an id is the sequence of its code units: <<97, 98>> is "ab".         *)
(***************************************************************************)
EXTENDS Integers, Sequences, FiniteSets, TLC

VARIABLES
    fromStatus, toStatus, transitionResult,      \* canTransition(from, to) and its result
    diskFiles, recordings, reconciliation,       \* reconcileLibraryFiles(diskFiles, recordings)
    unmatchedRecordingIds, candidates, discoveredFilePaths, toMark,
                                                 \* selectRecordingsToMarkMissing(...)
    guardInput, abortResult,                     \* shouldAbortSyncForProbeFailures(input)
    dirFiles,                                    \* RECORDINGS_DIR: its audio files, in readdir order
    db,                                          \* the rows of table `recordings`
    audioFiles, failedPaths,                     \* runLibrarySync: paths scanned, paths whose probe threw
    summary, syncError,                          \* runLibrarySync: what it resolved or rejected with
    syncInFlight,                                \* library-routes: null or the promise of the running cycle
    started,                                     \* number of calls of runLibrarySync so far
    responses,                                   \* what POST /api/library/sync answered, in order
    log,                                         \* console lines of the .then / .catch handlers
    unhandled,                                   \* a promise chain ended rejected with no handler
    everAmbiguous,                               \* paths the earlier successful cycles reported ambiguous
    fileBytes, fileSizeBytes,                    \* computeFileHash: the file's bytes, the size passed
    windowBuffer,                                \* Buffer.allocUnsafe(...): what the memory held
    hashResult,                                  \* computeFileHash: the string it resolved with
    transcribeId, transcribeResponse,            \* POST /api/recordings/:id/transcribe: :id, the answer
    rangeHeader, rangeFileSize, rangeResult,     \* parseSingleByteRange(rangeHeader, fileSize) and its result
    pc                                           \* where the function or the sync cycle stands

vars == << fromStatus, toStatus, transitionResult,
           diskFiles, recordings, reconciliation,
           unmatchedRecordingIds, candidates, discoveredFilePaths, toMark,
           guardInput, abortResult,
           dirFiles, db, audioFiles, failedPaths, summary, syncError,
           syncInFlight, started, responses, log, unhandled, everAmbiguous,
           fileBytes, fileSizeBytes, windowBuffer, hashResult,
           transcribeId, transcribeResponse,
           rangeHeader, rangeFileSize, rangeResult, pc >>

transitionVars == << fromStatus, toStatus, transitionResult >>
reconcileVars  == << diskFiles, recordings, reconciliation >>
missingVars    == << unmatchedRecordingIds, candidates, discoveredFilePaths, toMark >>
guardVars      == << guardInput, abortResult >>
syncVars       == << dirFiles, db, audioFiles, failedPaths, summary, syncError >>
routeVars      == << syncInFlight, started, responses, log, unhandled >>
historyVars    == << everAmbiguous >>
hashVars       == << fileBytes, fileSizeBytes, windowBuffer, hashResult >>
transcribeVars == << transcribeId, transcribeResponse >>
rangeVars      == << rangeHeader, rangeFileSize, rangeResult >>

\* JavaScript null (recordings.file_hash is nullable).
Null == "null"

(***************************************************************************)
(* Generic helpers                                                         *)
(***************************************************************************)
Range(seq) == { seq[i] : i \in DOMAIN seq }

\* All sequences over S of length 0..n.
SeqsUpTo(S, n) == UNION { [1..k -> S] : k \in 0..n }

\* Array.prototype.includes
includes(arr, x) == \E i \in DOMAIN arr : arr[i] = x

\* Array.prototype.map(r => r.id)
mapId(seq) == [i \in DOMAIN seq |-> seq[i].id]

\* a < b on strings given as code-unit sequences (what the default
\* comparator of Array.prototype.sort decides).
StrLess(a, b) ==
    \E k \in 1..(Len(a) + 1) :
        /\ k <= Len(b)
        /\ \A j \in 1..(k - 1) : a[j] = b[j]
        /\ (k = Len(a) + 1 \/ a[k] < b[k])

\* Insert x into the ascending sequence s, after the elements equal to it.
RECURSIVE insertSorted(_, _)
insertSorted(s, x) ==
    IF s = <<>> THEN <<x>>
    ELSE IF StrLess(x, Head(s)) THEN <<x>> \o s
    ELSE <<Head(s)>> \o insertSorted(Tail(s), x)

\* [...ids].sort()
RECURSIVE sortIds(_)
sortIds(ids) ==
    IF ids = <<>> THEN <<>>
    ELSE insertSorted(sortIds(SubSeq(ids, 1, Len(ids) - 1)), ids[Len(ids)])

(***************************************************************************)
(* packages/shared/src/stateMachine.ts                                     *)
(***************************************************************************)
Statuses ==
    { "IMPORTED", "TRANSCRIBING", "TRANSCRIBED", "ANALYZING", "REVIEWED",
      "EXPORTING", "COMPLETED", "ERROR", "FILE_MISSING" }

\* A slip in the table: COMPLETED can no longer go back to REVIEWED, and
\* FILE_MISSING can move to ERROR.
VALID_TRANSITIONS_Slip ==
    [ IMPORTED     |-> << "TRANSCRIBING", "ERROR", "FILE_MISSING" >>,
      TRANSCRIBING |-> << "TRANSCRIBED", "TRANSCRIBING", "ERROR", "FILE_MISSING" >>,
      TRANSCRIBED  |-> << "ANALYZING", "TRANSCRIBING", "ERROR", "FILE_MISSING" >>,
      ANALYZING    |-> << "REVIEWED", "ANALYZING", "ERROR", "FILE_MISSING" >>,
      REVIEWED     |-> << "EXPORTING", "ANALYZING", "ERROR", "FILE_MISSING" >>,
      EXPORTING    |-> << "COMPLETED", "ERROR", "FILE_MISSING" >>,
      COMPLETED    |-> << "ERROR", "FILE_MISSING" >>,
      ERROR        |-> << "TRANSCRIBING", "ANALYZING", "EXPORTING", "FILE_MISSING" >>,
      FILE_MISSING |-> << "IMPORTED", "ERROR" >> ]

\* A slip in the table: the FILE_MISSING row is left empty.
VALID_TRANSITIONS_NoRecovery ==
    [ IMPORTED     |-> << "TRANSCRIBING", "ERROR", "FILE_MISSING" >>,
      TRANSCRIBING |-> << "TRANSCRIBED", "TRANSCRIBING", "ERROR", "FILE_MISSING" >>,
      TRANSCRIBED  |-> << "ANALYZING", "TRANSCRIBING", "ERROR", "FILE_MISSING" >>,
      ANALYZING    |-> << "REVIEWED", "ANALYZING", "ERROR", "FILE_MISSING" >>,
      REVIEWED     |-> << "EXPORTING", "ANALYZING", "ERROR", "FILE_MISSING" >>,
      EXPORTING    |-> << "COMPLETED", "ERROR", "FILE_MISSING" >>,
      COMPLETED    |-> << "REVIEWED", "ERROR", "FILE_MISSING" >>,
      ERROR        |-> << "TRANSCRIBING", "ANALYZING", "EXPORTING", "FILE_MISSING" >>,
      FILE_MISSING |-> << >> ]

VALID_TRANSITIONS ==
    [ IMPORTED     |-> << "TRANSCRIBING", "ERROR", "FILE_MISSING" >>,
      TRANSCRIBING |-> << "TRANSCRIBED", "TRANSCRIBING", "ERROR", "FILE_MISSING" >>,
      TRANSCRIBED  |-> << "ANALYZING", "TRANSCRIBING", "ERROR", "FILE_MISSING" >>,
      ANALYZING    |-> << "REVIEWED", "ANALYZING", "ERROR", "FILE_MISSING" >>,
      REVIEWED     |-> << "EXPORTING", "ANALYZING", "ERROR", "FILE_MISSING" >>,
      EXPORTING    |-> << "COMPLETED", "ERROR", "FILE_MISSING" >>,
      COMPLETED    |-> << "REVIEWED", "ERROR", "FILE_MISSING" >>,
      ERROR        |-> << "TRANSCRIBING", "ANALYZING", "EXPORTING", "FILE_MISSING" >>,
      FILE_MISSING |-> << "IMPORTED" >> ]

canTransition(from, to) == includes(VALID_TRANSITIONS[from], to)

\* A slip: the filter on matchedRecordingIds is left out.
getAvailableIds_All(ids, matchedIds) == ids

(***************************************************************************)
(* apps/server/src/lib/library-reconciliation.ts                           *)
(***************************************************************************)
\* ids.filter((id) => !matchedIds.has(id))
getAvailableIds(ids, matchedIds) == SelectSeq(ids, LAMBDA id : id \notin matchedIds)

\* map.get(key) ?? []
getOrEmpty(index, key) == IF key \in DOMAIN index THEN index[key] ELSE <<>>

\* pathIndex: filePath -> ids of all recordings at that path, in input order.
buildPathIndex(recs) ==
    [ p \in { recs[i].filePath : i \in DOMAIN recs } |->
        mapId(SelectSeq(recs, LAMBDA r : r.filePath = p)) ]

\* A slip: the hash index takes every recording with a hash, whatever its status.
buildMissingHashIndex_AnyStatus(recs) ==
    [ h \in { recs[i].fileHash : i \in { j \in DOMAIN recs : recs[j].fileHash # Null } } |->
        mapId(SelectSeq(recs, LAMBDA r : r.fileHash = h)) ]

\* missingHashIndex: fileHash -> ids of the FILE_MISSING recordings with that
\* (non-null) hash, in input order.
buildMissingHashIndex(recs) ==
    [ h \in { recs[i].fileHash :
                i \in { j \in DOMAIN recs :
                          recs[j].status = "FILE_MISSING" /\ recs[j].fileHash # Null } } |->
        mapId(SelectSeq(recs, LAMBDA r : r.status = "FILE_MISSING" /\ r.fileHash = h)) ]

\* The accumulators before the first disk file.
emptyLoopState ==
    [ matchedRecordingIds |-> {}, matches |-> <<>>, newFiles |-> <<>>,
      ambiguousMatches |-> <<>> ]

newMatch(recordingId, file, reason) ==
    [ recordingId |-> recordingId, filePath |-> file.filePath,
      fileHash |-> file.fileHash, reason |-> reason ]

\* A slip: the candidate ids are listed in index order, not sorted.
newAmbiguous_Unsorted(reason, file, ids) ==
    [ reason |-> reason, filePath |-> file.filePath, fileHash |-> file.fileHash,
      candidateRecordingIds |-> ids ]

newAmbiguous(reason, file, ids) ==
    [ reason |-> reason, filePath |-> file.filePath, fileHash |-> file.fileHash,
      candidateRecordingIds |-> sortIds(ids) ]

\* A slip: the hash lookup runs first, the path lookup only as a fallback.
reconcileFile_HashFirst(st, file, pathIndex, missingHashIndex) ==
    LET pathCandidates ==
            getAvailableIds(getOrEmpty(pathIndex, file.filePath), st.matchedRecordingIds)
        hashCandidates ==
            getAvailableIds(getOrEmpty(missingHashIndex, file.fileHash), st.matchedRecordingIds)
    IN  IF Len(hashCandidates) = 1 THEN
            [ st EXCEPT !.matchedRecordingIds = @ \cup { hashCandidates[1] },
                        !.matches = Append(@, newMatch(hashCandidates[1], file, "hash")) ]
        ELSE IF Len(hashCandidates) > 1 THEN
            [ st EXCEPT !.ambiguousMatches = Append(@, newAmbiguous("hash", file, hashCandidates)) ]
        ELSE IF Len(pathCandidates) = 1 THEN
            [ st EXCEPT !.matchedRecordingIds = @ \cup { pathCandidates[1] },
                        !.matches = Append(@, newMatch(pathCandidates[1], file, "path")) ]
        ELSE IF Len(pathCandidates) > 1 THEN
            [ st EXCEPT !.ambiguousMatches = Append(@, newAmbiguous("path", file, pathCandidates)) ]
        ELSE
            [ st EXCEPT !.newFiles = Append(@, file) ]

\* A slip: no `continue` after the path-ambiguous push, so the file goes on
\* to the hash lookup and lands in a second bucket.
reconcileFile_MissingContinue(st, file, pathIndex, missingHashIndex) ==
    LET pathCandidates ==
            getAvailableIds(getOrEmpty(pathIndex, file.filePath), st.matchedRecordingIds)
        hashCandidates ==
            getAvailableIds(getOrEmpty(missingHashIndex, file.fileHash), st.matchedRecordingIds)
        st1 == IF Len(pathCandidates) > 1
               THEN [ st EXCEPT !.ambiguousMatches =
                                    Append(@, newAmbiguous("path", file, pathCandidates)) ]
               ELSE st
    IN  IF Len(pathCandidates) = 1 THEN
            [ st EXCEPT !.matchedRecordingIds = @ \cup { pathCandidates[1] },
                        !.matches = Append(@, newMatch(pathCandidates[1], file, "path")) ]
        ELSE IF Len(hashCandidates) = 1 THEN
            [ st1 EXCEPT !.matchedRecordingIds = @ \cup { hashCandidates[1] },
                         !.matches = Append(@, newMatch(hashCandidates[1], file, "hash")) ]
        ELSE IF Len(hashCandidates) > 1 THEN
            [ st1 EXCEPT !.ambiguousMatches = Append(@, newAmbiguous("hash", file, hashCandidates)) ]
        ELSE
            [ st1 EXCEPT !.newFiles = Append(@, file) ]

\* A slip: a file with no candidate is dropped when an earlier new file
\* already has its hash.
reconcileFile_DedupNewByHash(st, file, pathIndex, missingHashIndex) ==
    LET pathCandidates ==
            getAvailableIds(getOrEmpty(pathIndex, file.filePath), st.matchedRecordingIds)
        hashCandidates ==
            getAvailableIds(getOrEmpty(missingHashIndex, file.fileHash), st.matchedRecordingIds)
    IN  IF Len(pathCandidates) = 1 THEN
            [ st EXCEPT !.matchedRecordingIds = @ \cup { pathCandidates[1] },
                        !.matches = Append(@, newMatch(pathCandidates[1], file, "path")) ]
        ELSE IF Len(pathCandidates) > 1 THEN
            [ st EXCEPT !.ambiguousMatches = Append(@, newAmbiguous("path", file, pathCandidates)) ]
        ELSE IF Len(hashCandidates) = 1 THEN
            [ st EXCEPT !.matchedRecordingIds = @ \cup { hashCandidates[1] },
                        !.matches = Append(@, newMatch(hashCandidates[1], file, "hash")) ]
        ELSE IF Len(hashCandidates) > 1 THEN
            [ st EXCEPT !.ambiguousMatches = Append(@, newAmbiguous("hash", file, hashCandidates)) ]
        ELSE IF \E k \in DOMAIN st.newFiles : st.newFiles[k].fileHash = file.fileHash THEN
            st
        ELSE
            [ st EXCEPT !.newFiles = Append(@, file) ]

\* A slip: several path candidates are treated like none, and the file
\* goes on to the hash lookup.
reconcileFile_PathAmbiguityFallsThrough(st, file, pathIndex, missingHashIndex) ==
    LET pathCandidates ==
            getAvailableIds(getOrEmpty(pathIndex, file.filePath), st.matchedRecordingIds)
        hashCandidates ==
            getAvailableIds(getOrEmpty(missingHashIndex, file.fileHash), st.matchedRecordingIds)
    IN  IF Len(pathCandidates) = 1 THEN
            [ st EXCEPT !.matchedRecordingIds = @ \cup { pathCandidates[1] },
                        !.matches = Append(@, newMatch(pathCandidates[1], file, "path")) ]
        ELSE IF Len(hashCandidates) = 1 THEN
            [ st EXCEPT !.matchedRecordingIds = @ \cup { hashCandidates[1] },
                        !.matches = Append(@, newMatch(hashCandidates[1], file, "hash")) ]
        ELSE IF Len(hashCandidates) > 1 THEN
            [ st EXCEPT !.ambiguousMatches = Append(@, newAmbiguous("hash", file, hashCandidates)) ]
        ELSE IF Len(pathCandidates) > 1 THEN
            [ st EXCEPT !.ambiguousMatches = Append(@, newAmbiguous("path", file, pathCandidates)) ]
        ELSE
            [ st EXCEPT !.newFiles = Append(@, file) ]

\* One iteration of `for (const file of diskFiles)`.  The guards
\* `recordingId === undefined` never hold: the array has length 1 and ids
\* are strings.
reconcileFile(st, file, pathIndex, missingHashIndex) ==
    LET pathCandidates ==
            getAvailableIds(getOrEmpty(pathIndex, file.filePath), st.matchedRecordingIds)
        hashCandidates ==
            getAvailableIds(getOrEmpty(missingHashIndex, file.fileHash), st.matchedRecordingIds)
    IN  IF Len(pathCandidates) = 1 THEN
            [ st EXCEPT !.matchedRecordingIds = @ \cup { pathCandidates[1] },
                        !.matches = Append(@, newMatch(pathCandidates[1], file, "path")) ]
        ELSE IF Len(pathCandidates) > 1 THEN
            [ st EXCEPT !.ambiguousMatches = Append(@, newAmbiguous("path", file, pathCandidates)) ]
        ELSE IF Len(hashCandidates) = 1 THEN
            [ st EXCEPT !.matchedRecordingIds = @ \cup { hashCandidates[1] },
                        !.matches = Append(@, newMatch(hashCandidates[1], file, "hash")) ]
        ELSE IF Len(hashCandidates) > 1 THEN
            [ st EXCEPT !.ambiguousMatches = Append(@, newAmbiguous("hash", file, hashCandidates)) ]
        ELSE
            [ st EXCEPT !.newFiles = Append(@, file) ]

\* The loop `for (const file of diskFiles)` over the first k disk files, as
\* the sequence of its accumulators: before the first file, after the
\* first, ..., after the k-th.
RECURSIVE reconcileLoop(_, _, _)
reconcileLoop(files, recs, k) ==
    IF k = 0 THEN << emptyLoopState >>
    ELSE LET prev == reconcileLoop(files, recs, k - 1)
         IN  Append(prev, reconcileFile(prev[k], files[k],
                                        buildPathIndex(recs), buildMissingHashIndex(recs)))

\* A slip: the filter is left out and every id is reported unmatched.
unmatchedIdsOf_NoFilter(recs, matchedIds) == mapId(recs)

\* recordings.map(r => r.id).filter(id => !matchedRecordingIds.has(id))
unmatchedIdsOf(recs, matchedIds) == getAvailableIds(mapId(recs), matchedIds)

reconcileLibraryFiles(files, recs) ==
    LET final == reconcileLoop(files, recs, Len(files))[Len(files) + 1]
    IN  [ matches |-> final.matches,
          newFiles |-> final.newFiles,
          ambiguousMatches |-> final.ambiguousMatches,
          unmatchedRecordingIds |-> unmatchedIdsOf(recs, final.matchedRecordingIds) ]

(***************************************************************************)
(* apps/server/src/lib/library-sync-decisions.ts                           *)
(***************************************************************************)
\* A slip: the discovered-path filter is left out.
selectRecordingsToMarkMissing_NoPathFilter(unmatchedIds, cands, discovered) ==
    IF Len(unmatchedIds) = 0 THEN <<>>
    ELSE mapId(SelectSeq(cands, LAMBDA c :
                 c.id \in Range(unmatchedIds) /\ canTransition(c.status, "FILE_MISSING")))

\* A slip: the canTransition filter is left out.
selectRecordingsToMarkMissing_NoTransitionFilter(unmatchedIds, cands, discovered) ==
    IF Len(unmatchedIds) = 0 THEN <<>>
    ELSE mapId(SelectSeq(cands, LAMBDA c :
                 c.id \in Range(unmatchedIds) /\ c.filePath \notin discovered))

\* A slip: the result follows the order of the unmatched ids, not of the candidates.
selectRecordingsToMarkMissing_UnmatchedOrder(unmatchedIds, cands, discovered) ==
    SelectSeq(unmatchedIds, LAMBDA id :
        \E i \in DOMAIN cands :
            /\ cands[i].id = id
            /\ cands[i].filePath \notin discovered
            /\ canTransition(cands[i].status, "FILE_MISSING"))

selectRecordingsToMarkMissing(unmatchedIds, cands, discovered) ==
    IF Len(unmatchedIds) = 0 THEN <<>>
    ELSE LET unmatchedSet == Range(unmatchedIds)
             inUnmatched == SelectSeq(cands, LAMBDA c : c.id \in unmatchedSet)
             notOnDisk   == SelectSeq(inUnmatched, LAMBDA c : c.filePath \notin discovered)
             movable     == SelectSeq(notOnDisk,
                                      LAMBDA c : canTransition(c.status, "FILE_MISSING"))
         IN  mapId(movable)

\* A slip: the guard trips on any failure, even next to successes.
shouldAbortSyncForProbeFailures_AnyFailure(input) ==
    input.discoveredAudioFileCount > 0 /\ input.failedProbeCount > 0

\* A slip: the guard trips when the failures are not outnumbered.
shouldAbortSyncForProbeFailures_NotOutnumbered(input) ==
    /\ input.discoveredAudioFileCount > 0
    /\ input.failedProbeCount > 0
    /\ input.failedProbeCount >= input.successfulProbeCount

\* A slip: `> 0` for `=== 0` on the successful count.
shouldAbortSyncForProbeFailures_SomeSucceeded(input) ==
    /\ input.discoveredAudioFileCount > 0
    /\ input.failedProbeCount > 0
    /\ input.successfulProbeCount > 0

\* A slip: the guard trips whenever no probe succeeded, scanned files or not.
shouldAbortSyncForProbeFailures_NoSuccess(input) ==
    input.successfulProbeCount = 0

shouldAbortSyncForProbeFailures(input) ==
    /\ input.discoveredAudioFileCount > 0
    /\ input.failedProbeCount > 0
    /\ input.successfulProbeCount = 0

(***************************************************************************)
(* Bounds and input universes                                              *)
(***************************************************************************)
MaxDiskFiles  == 2      \* longest diskFiles array drawn
MaxRecordings == 2      \* longest recordings / candidates array drawn
MaxCount      == 3      \* largest count given to the probe-failure guard

Paths  == { "/audio/a.wav", "/audio/b.wav", "/audio/c.wav" }
\* The paths recordings are drawn at; "/audio/c.wav" is a path no recording holds.
RecordedPaths == { "/audio/a.wav", "/audio/b.wav" }
Hashes == { "hashA", "hashB" }
\* The i-th recording drawn has the id IdPool[i]: "b", "ab", "a", "c", "ac", "ba".
\* Input order, code-unit order and length order all differ.
IdPool == << <<98>>, <<97, 98>>, <<97>>, <<99>>, <<97, 99>>, <<98, 97>> >>
\* The statuses the sync logic can tell apart (FILE_MISSING and others), and ERROR.
SyncStatuses == { "IMPORTED", "TRANSCRIBED", "FILE_MISSING" }

DiskFileUniverse == [ filePath : Paths, fileHash : Hashes ]

\* Scanned files: readdir lists each name once, so the paths are distinct.
DiskFileSeqs(n) ==
    { s \in SeqsUpTo(DiskFileUniverse, n) :
        \A i, j \in DOMAIN s : s[i].filePath = s[j].filePath => i = j }

\* Recording identities: distinct ids (recordings.id is the primary key), any
\* recorded path, any hash or null, FILE_MISSING or not.
RecordingSeqs(n) ==
    UNION { { [ i \in 1..k |-> [ id |-> IdPool[i], filePath |-> a[i].filePath,
                                 fileHash |-> a[i].fileHash, status |-> a[i].status ] ] :
                a \in [1..k -> [ filePath : RecordedPaths, fileHash : Hashes \cup {Null},
                                 status : { "IMPORTED", "FILE_MISSING" } ]] } :
            k \in 0..n }

\* Candidates for the missing transition: distinct ids, any recorded path.
CandidateSeqs(n) ==
    UNION { { [ i \in 1..k |-> [ id |-> IdPool[i], filePath |-> a[i].filePath,
                                 status |-> a[i].status ] ] :
                a \in [1..k -> [ filePath : RecordedPaths,
                                 status : SyncStatuses \cup { "ERROR" } ]] } :
            k \in 0..n }

\* Arrays of at most n pairwise distinct ids among the first n + 1 of the pool
\* (so one id can be an id no candidate has).
IdSeqs(n) ==
    { s \in SeqsUpTo({ IdPool[i] : i \in 1..(n + 1) }, n) :
        \A i, j \in DOMAIN s : s[i] = s[j] => i = j }

(***************************************************************************)
(* runLibrarySync.  A row of `recordings` keeps the columns the sync reads *)
(* or writes: id, filePath, fileHash, status, fileLastCheckedAt,           *)
(* updatedAt.  The audio metadata columns are copied from the probe into   *)
(* an inserted row and never read again.                                   *)
(***************************************************************************)
\* `now`, the timestamp of the cycle, and the timestamp rows carry from before it.
now     == "t1"
earlier == "t0"

\* What a rejected cycle rejects with, named by its message.
\* throw new Error(`RECORDINGS_DIR does not exist or is not accessible: ...`)
directoryError == "directory"

\* A slip: the guard rethrows the directory error.
systemicProbeError_AsDirectory == "directory"

\* throw new Error(`Library sync aborted: failed to probe/hash all N
\* discovered audio files.`)
systemicProbeError == "probe"

\* The error a statement of db.transaction throws, passed on as it is.
transactionError == "transaction"

\* The summary slot before a cycle resolves.
NoSummary ==
    [ newCount |-> 0, updatedCount |-> 0, missingCount |-> 0,
      ambiguousCount |-> 0, failedCount |-> 0 ]

\* db.select({ id, filePath, fileHash, status }).from(recordings)
selectIdentities(table) ==
    [ i \in DOMAIN table |->
        [ id |-> table[i].id, filePath |-> table[i].filePath,
          fileHash |-> table[i].fileHash, status |-> table[i].status ] ]

\* dbRows.map(row => ({ id, filePath, status }))
missingTransitionCandidates(rows) ==
    [ i \in DOMAIN rows |->
        [ id |-> rows[i].id, filePath |-> rows[i].filePath, status |-> rows[i].status ] ]

\* dbHashMap.get(id) / dbStatusMap.get(id): the loaded row with that id.
rowById(rows, id) == rows[CHOOSE i \in DOMAIN rows : rows[i].id = id]

\* A slip: updatedCount++ outside the `if`.
pathMatchWrite_AlwaysCounted(match, rows) ==
    LET existing         == rowById(rows, match.recordingId)
        needsHashUpdate  == existing.fileHash = Null
        needsStatusReset == existing.status = "FILE_MISSING"
        columns == { "fileLastCheckedAt", "updatedAt" }
                       \cup (IF needsHashUpdate THEN { "fileHash" } ELSE {})
                       \cup (IF needsStatusReset THEN { "status" } ELSE {})
    IN  [ op |-> "update", ids |-> { match.recordingId },
          set |-> [ c \in columns |->
                      CASE c = "fileHash" -> match.fileHash
                        [] c = "status"   -> "IMPORTED"
                        [] OTHER          -> now ],
          counted |-> TRUE ]

\* A slip: fileHash is always part of the SET of a path match.
pathMatchWrite_AlwaysHash(match, rows) ==
    LET existing         == rowById(rows, match.recordingId)
        needsHashUpdate  == existing.fileHash = Null
        needsStatusReset == existing.status = "FILE_MISSING"
        columns == { "fileLastCheckedAt", "updatedAt", "fileHash" }
                       \cup (IF needsStatusReset THEN { "status" } ELSE {})
    IN  [ op |-> "update", ids |-> { match.recordingId },
          set |-> [ c \in columns |->
                      CASE c = "fileHash" -> match.fileHash
                        [] c = "status"   -> "IMPORTED"
                        [] OTHER          -> now ],
          counted |-> needsHashUpdate \/ needsStatusReset ]

\* 6a: the UPDATE of one path match.
pathMatchWrite(match, rows) ==
    LET existing         == rowById(rows, match.recordingId)
        needsHashUpdate  == existing.fileHash = Null
        needsStatusReset == existing.status = "FILE_MISSING"
        columns == { "fileLastCheckedAt", "updatedAt" }
                       \cup (IF needsHashUpdate THEN { "fileHash" } ELSE {})
                       \cup (IF needsStatusReset THEN { "status" } ELSE {})
    IN  [ op |-> "update", ids |-> { match.recordingId },
          set |-> [ c \in columns |->
                      CASE c = "fileHash" -> match.fileHash
                        [] c = "status"   -> "IMPORTED"
                        [] OTHER          -> now ],
          counted |-> needsHashUpdate \/ needsStatusReset ]

\* A slip: the UPDATE of a hash match leaves filePath out of its SET.
hashMatchWrite_NoRelink(match) ==
    [ op |-> "update", ids |-> { match.recordingId },
      set |-> [ c \in { "status", "fileHash", "fileLastCheckedAt", "updatedAt" } |->
                  CASE c = "status"   -> "IMPORTED"
                    [] c = "fileHash" -> match.fileHash
                    [] OTHER          -> now ],
      counted |-> TRUE ]

\* 6b: the UPDATE of one hash match.
hashMatchWrite(match) ==
    [ op |-> "update", ids |-> { match.recordingId },
      set |-> [ c \in { "filePath", "status", "fileHash", "fileLastCheckedAt", "updatedAt" } |->
                  CASE c = "filePath" -> match.filePath
                    [] c = "status"   -> "IMPORTED"
                    [] c = "fileHash" -> match.fileHash
                    [] OTHER          -> now ],
      counted |-> TRUE ]

\* A slip: the INSERT writes the status of a file not found.
newFileWrite_Missing(file, id) ==
    [ op |-> "insert",
      row |-> [ id |-> id, filePath |-> file.filePath, fileHash |-> file.fileHash,
                status |-> "FILE_MISSING", fileLastCheckedAt |-> now, updatedAt |-> now ] ]

\* 6c: the INSERT of one new file.  randomUUID() gives an id no row has; ids
\* are only compared, so the next unused id of the pool stands for it.
newFileWrite(file, id) ==
    [ op |-> "insert",
      row |-> [ id |-> id, filePath |-> file.filePath, fileHash |-> file.fileHash,
                status |-> "IMPORTED", fileLastCheckedAt |-> now, updatedAt |-> now ] ]

\* A slip: the UPDATE of step 6d also clears fileHash.
markMissingWrite_ClearsHash(ids) ==
    [ op |-> "update", ids |-> Range(ids),
      set |-> [ c \in { "status", "updatedAt", "fileHash" } |->
                  CASE c = "status"   -> "FILE_MISSING"
                    [] c = "fileHash" -> Null
                    [] OTHER          -> now ],
      counted |-> FALSE ]

\* A slip: eq(recordings.id, toMark[0]) for inArray(recordings.id, toMark).
markMissingWrite_FirstOnly(ids) ==
    [ op |-> "update", ids |-> { ids[1] },
      set |-> [ c \in { "status", "updatedAt" } |->
                  IF c = "status" THEN "FILE_MISSING" ELSE now ],
      counted |-> FALSE ]

\* 6d: the one UPDATE ... WHERE id IN (toMark).
markMissingWrite(ids) ==
    [ op |-> "update", ids |-> Range(ids),
      set |-> [ c \in { "status", "updatedAt" } |->
                  IF c = "status" THEN "FILE_MISSING" ELSE now ],
      counted |-> FALSE ]

\* A slip: step 6c is written before 6b.
transactionWrites_InsertsBeforeHash(rec, rows, files, marks) ==
    LET pathMatches == SelectSeq(rec.matches, LAMBDA m : m.reason = "path")
        hashMatches == SelectSeq(rec.matches, LAMBDA m : m.reason = "hash")
        inserted    == SelectSeq(rec.newFiles, LAMBDA file :
                          \E i \in DOMAIN files : files[i].filePath = file.filePath)
        found(file) == files[CHOOSE i \in DOMAIN files :
                                /\ files[i].filePath = file.filePath
                                /\ \A j \in 1..(i - 1) : files[j].filePath # file.filePath]
    IN  [ i \in DOMAIN pathMatches |-> pathMatchWrite(pathMatches[i], rows) ]
          \o [ i \in DOMAIN inserted |->
                 newFileWrite(found(inserted[i]), IdPool[Len(rows) + i]) ]
          \o [ i \in DOMAIN hashMatches |-> hashMatchWrite(hashMatches[i]) ]
          \o (IF Len(rec.unmatchedRecordingIds) > 0 /\ Len(marks) > 0
              THEN << markMissingWrite(marks) >> ELSE <<>>)

\* A slip: step 6d is written before 6a.
transactionWrites_MissingFirst(rec, rows, files, marks) ==
    LET pathMatches == SelectSeq(rec.matches, LAMBDA m : m.reason = "path")
        hashMatches == SelectSeq(rec.matches, LAMBDA m : m.reason = "hash")
        inserted    == SelectSeq(rec.newFiles, LAMBDA file :
                          \E i \in DOMAIN files : files[i].filePath = file.filePath)
        found(file) == files[CHOOSE i \in DOMAIN files :
                                /\ files[i].filePath = file.filePath
                                /\ \A j \in 1..(i - 1) : files[j].filePath # file.filePath]
    IN  (IF Len(rec.unmatchedRecordingIds) > 0 /\ Len(marks) > 0
         THEN << markMissingWrite(marks) >> ELSE <<>>)
          \o [ i \in DOMAIN pathMatches |-> pathMatchWrite(pathMatches[i], rows) ]
          \o [ i \in DOMAIN hashMatches |-> hashMatchWrite(hashMatches[i]) ]
          \o [ i \in DOMAIN inserted |->
                 newFileWrite(found(inserted[i]), IdPool[Len(rows) + i]) ]

\* The statements the transaction callback runs, in the order it runs them.
transactionWrites(rec, rows, files, marks) ==
    LET pathMatches == SelectSeq(rec.matches, LAMBDA m : m.reason = "path")
        hashMatches == SelectSeq(rec.matches, LAMBDA m : m.reason = "hash")
        \* diskFiles.find(f => f.filePath === file.filePath); `continue` when none
        inserted    == SelectSeq(rec.newFiles, LAMBDA file :
                          \E i \in DOMAIN files : files[i].filePath = file.filePath)
        found(file) == files[CHOOSE i \in DOMAIN files :
                                /\ files[i].filePath = file.filePath
                                /\ \A j \in 1..(i - 1) : files[j].filePath # file.filePath]
    IN  [ i \in DOMAIN pathMatches |-> pathMatchWrite(pathMatches[i], rows) ]
          \o [ i \in DOMAIN hashMatches |-> hashMatchWrite(hashMatches[i]) ]
          \o [ i \in DOMAIN inserted |->
                 newFileWrite(found(inserted[i]), IdPool[Len(rows) + i]) ]
          \o (IF Len(rec.unmatchedRecordingIds) > 0 /\ Len(marks) > 0
              THEN << markMissingWrite(marks) >> ELSE <<>>)

\* One statement applied to the table.
applyWrite(table, w) ==
    IF w.op = "insert" THEN Append(table, w.row)
    ELSE [ i \in DOMAIN table |->
             IF table[i].id \in w.ids
             THEN LET col(c) == IF c \in DOMAIN w.set THEN w.set[c] ELSE table[i][c]
                  IN  [ id |-> table[i].id, filePath |-> col("filePath"),
                        fileHash |-> col("fileHash"), status |-> col("status"),
                        fileLastCheckedAt |-> col("fileLastCheckedAt"),
                        updatedAt |-> col("updatedAt") ]
             ELSE table[i] ]

\* id is the primary key and recordings_file_path_unique indexes filePath.
constraintsHold(table) ==
    \A i, j \in DOMAIN table :
        (table[i].id = table[j].id \/ table[i].filePath = table[j].filePath) => i = j

\* The table after each of the first k statements: the first entry is the
\* table the transaction began with.
RECURSIVE transactionTrace(_, _, _)
transactionTrace(table, writes, k) ==
    IF k = 0 THEN << table >>
    ELSE LET prev == transactionTrace(table, writes, k - 1)
         IN  Append(prev, applyWrite(prev[k], writes[k]))

\* A slip: the statements run before the failing one stay applied.
rollback_KeepPartial(trace, k) == trace[k]

\* db.transaction when the k-th statement (or, past the last one, the COMMIT)
\* throws: better-sqlite3 rolls back to the table the transaction began
\* with and rethrows.  trace[k] is the table the failing statement met.
rollback(trace, k) == trace[1]

\* What shouldAbortSyncForProbeFailures is called with after the probe loop.
probeCounts(files, probed, failed) ==
    [ discoveredAudioFileCount |-> Len(files), successfulProbeCount |-> Len(probed),
      failedProbeCount |-> Cardinality(failed) ]

\* Catalogs before a cycle: at most n rows, distinct ids, distinct paths.
\* Paths are only compared for equality, so the i-th row holds the i-th
\* path; the directory ranges over every path in every order.
RowPaths == << "/audio/a.wav", "/audio/b.wav", "/audio/c.wav" >>
StoredStatuses == { "TRANSCRIBED", "FILE_MISSING" }
Catalogs(n) ==
    UNION { { [ i \in 1..k |-> [ id |-> IdPool[i], filePath |-> RowPaths[i],
                                 fileHash |-> a[i].fileHash, status |-> a[i].status,
                                 fileLastCheckedAt |-> earlier, updatedAt |-> earlier ] ] :
                a \in [1..k -> [ fileHash : Hashes \cup {Null}, status : StoredStatuses ]] } :
            k \in 0..n }

(***************************************************************************)
(* apps/server/src/routes/library-routes.ts                                *)
(***************************************************************************)
\* The value syncInFlight holds while it is set: the promise of the chain.
Promise == "promise"

\* What the handler answers: c.json({ status: "sync_started" }, 202).
Accepted == [ status |-> 202, body |-> "sync_started" ]

\* console.log("[library-sync] completed: ... new, ... updated, ...") and
\* console.error("[library-sync] error:", ...).
completedLine(sum) == [ kind |-> "completed", summary |-> sum, error |-> "none" ]
errorLine(err)     == [ kind |-> "error", summary |-> NoSummary, error |-> err ]

\* A slip: `if (true)` for `if (!syncInFlight)`.
notInFlight_Always(inFlight) == TRUE

\* if (!syncInFlight)
notInFlight(inFlight) == inFlight = Null

\* A slip: no .finally; syncInFlight is cleared inside the .then handler.
settleChain_ClearInThen(outcome, sum, err, lines, inFlight) ==
    IF outcome = "done"
    THEN [ log |-> Append(lines, completedLine(sum)), syncInFlight |-> Null,
           unhandled |-> FALSE ]
    ELSE [ log |-> Append(lines, errorLine(err)), syncInFlight |-> inFlight,
           unhandled |-> FALSE ]

\* A slip: no .catch; a rejection passes through .then and .finally.
settleChain_NoCatch(outcome, sum, err, lines, inFlight) ==
    IF outcome = "done"
    THEN [ log |-> Append(lines, completedLine(sum)), syncInFlight |-> Null,
           unhandled |-> FALSE ]
    ELSE [ log |-> lines, syncInFlight |-> Null, unhandled |-> TRUE ]

\* runLibrarySync().then(...).catch(...).finally(...) once the cycle settled
\* as `outcome` ("done": resolved with sum, "failed": rejected with err).
\* Each handler gets the promise the one before it returned.
settleChain(outcome, sum, err, lines, inFlight) ==
    LET afterThen  == IF outcome = "done"
                      THEN [ state |-> "fulfilled", log |-> Append(lines, completedLine(sum)) ]
                      ELSE [ state |-> "rejected", log |-> lines ]
        afterCatch == IF afterThen.state = "rejected"
                      THEN [ state |-> "fulfilled", log |-> Append(afterThen.log, errorLine(err)) ]
                      ELSE afterThen
    IN  [ log |-> afterCatch.log,
          syncInFlight |-> Null,
          unhandled |-> afterCatch.state = "rejected" ]

\* Requests the route is given, and files in the directory it syncs.
MaxRequests   == 3
MaxRouteFiles == 1

(***************************************************************************)
(* apps/server/src/lib/file-hash.ts                                        *)
(***************************************************************************)
\* FILE_HASH_WINDOW_BYTES is 1024 * 1024 in packages/shared; the window is
\* scaled down here, and files reach one byte past it.
FILE_HASH_WINDOW_BYTES == 2
MaxFileBytes == FILE_HASH_WINDOW_BYTES + 1

\* Byte values files and unwritten memory are made of, and declared sizes.
Bytes == { 66, 255 }
FileSizes == { 0, 1, 255, 256, 65537 }

Min(a, b) == IF a < b THEN a ELSE b

\* hash.digest("hex") of a SHA-256 fed `input`: the digest is taken as
\* collision-free, so it stands for its input and nothing else.
sha256Hex(input) == [ sha256 |-> input ]
NoHash == [ sha256 |-> << -1 >> ]

\* fileHandle.read(buffer, 0, length, 0): the first `length` bytes of the
\* file, or all of them when it is shorter, land at the start of the buffer.
read(bytes, buffer, length) ==
    LET bytesRead == Min(length, Len(bytes))
    IN  [ bytesRead |-> bytesRead,
          buffer |-> [ i \in DOMAIN buffer |-> IF i <= bytesRead THEN bytes[i] ELSE buffer[i] ] ]

\* buffer.subarray(start, end)
subarray(buffer, start, end) == SubSeq(buffer, start + 1, end)

\* sizeBuffer.writeBigUInt64LE(BigInt(n)) into 8 allocated bytes: byte i is
\* digit i - 1 of n in base 256.
RECURSIVE digit256(_, _)
digit256(n, i) == IF i = 0 THEN n % 256 ELSE digit256(n \div 256, i - 1)
writeBigUInt64LE(n) == [ i \in 1..8 |-> digit256(n, i - 1) ]

\* A slip: hash.update(windowBuffer) without the subarray.
computeFileHash_WholeBuffer(bytes, size, allocated) ==
    sha256Hex(read(bytes, allocated, FILE_HASH_WINDOW_BYTES).buffer \o writeBigUInt64LE(size))

\* A slip: the whole file is read and hashed.
computeFileHash_WholeFile(bytes, size, allocated) ==
    sha256Hex(bytes \o writeBigUInt64LE(size))

\* computeFileHash(filePath, fileSizeBytes) on a file holding `bytes`, when
\* Buffer.allocUnsafe(FILE_HASH_WINDOW_BYTES) returned memory holding
\* `allocated`.
computeFileHash(bytes, size, allocated) ==
    LET got == read(bytes, allocated, FILE_HASH_WINDOW_BYTES)
    IN  sha256Hex(subarray(got.buffer, 0, got.bytesRead) \o writeBigUInt64LE(size))

(***************************************************************************)
(* routes/recordings.ts: POST /api/recordings/:id/transcribe                *)
(***************************************************************************)
MaxTranscribeRows == 2   \* most rows in the catalog a transcribe request meets

\* A slip: FILE_MISSING is listed as startable.
TRANSCRIBE_STARTABLE_STATUSES_WithMissing ==
    { "IMPORTED", "TRANSCRIBED", "ERROR", "FILE_MISSING" }

TRANSCRIBE_STARTABLE_STATUSES == { "IMPORTED", "TRANSCRIBED", "ERROR" }

\* db.select().from(recordings).where(eq(recordings.id, id)).limit(1)
selectById(table, id) ==
    LET found == SelectSeq(table, LAMBDA r : r.id = id)
    IN  IF Len(found) > 1 THEN SubSeq(found, 1, 1) ELSE found

\* What c.json(body, code) answers; `line` is the return statement taken.
jsonResponse(code, body, line) == [ code |-> code, body |-> body, line |-> line ]
NoResponse == jsonResponse(0, "none", 0)

\* The handler, from the rows the select resolved with to its answer.
transcribeHandler(table, id) ==
    LET rows == selectById(table, id) IN
    IF Len(rows) = 0
    THEN jsonResponse(404, "Recording not found", 82)
    ELSE LET currentStatus == rows[1].status
             nextStatus == "TRANSCRIBING"
         IN  IF currentStatus = nextStatus
             THEN jsonResponse(202, "already_in_progress", 91)
             ELSE IF currentStatus \notin TRANSCRIBE_STARTABLE_STATUSES
             THEN jsonResponse(409, "Cannot start transcription", 96)
             ELSE IF ~canTransition(currentStatus, nextStatus)
             THEN jsonResponse(409, "Cannot start transcription", 107)
             ELSE jsonResponse(202, "accepted", 117)

(***************************************************************************)
(* lib/http-range.ts: parseSingleByteRange.  A string is the sequence of    *)
(* its characters.                                                          *)
(***************************************************************************)
MaxSpecLen == 4          \* longest text drawn after the range unit

WhiteSpace == { " " }
LineTerminators == { "\n", "\r" }
Digits == << "0", "1", "2", "3", "4", "5", "6", "7", "8", "9" >>

\* \d
isDigit(c) == \E k \in DOMAIN Digits : Digits[k] = c
digitValue(c) == (CHOOSE k \in DOMAIN Digits : Digits[k] = c) - 1

\* String.prototype.trim
RECURSIVE trimStart(_)
trimStart(s) ==
    IF s # <<>> /\ Head(s) \in WhiteSpace THEN trimStart(Tail(s)) ELSE s

RECURSIVE trimEnd(_)
trimEnd(s) ==
    IF s # <<>> /\ s[Len(s)] \in WhiteSpace THEN trimEnd(SubSeq(s, 1, Len(s) - 1)) ELSE s

trim(s) == trimEnd(trimStart(s))

\* The letters of the unit, folded as the `i` flag folds them.
toLowerCase(c) ==
    CASE c = "B" -> "b" [] c = "Y" -> "y" [] c = "T" -> "t"
      [] c = "E" -> "e" [] c = "S" -> "s" [] OTHER -> c

\* /^bytes=(.+)$/i.exec(s): whether it matched, and its group 1.
unitExec(s) ==
    IF /\ Len(s) >= 7
       /\ [ i \in 1..6 |-> toLowerCase(s[i]) ] = << "b", "y", "t", "e", "s", "=" >>
       /\ \A i \in 7..Len(s) : s[i] \notin LineTerminators
    THEN [ matched |-> TRUE, group1 |-> SubSeq(s, 7, Len(s)) ]
    ELSE [ matched |-> FALSE, group1 |-> <<>> ]

\* /^(\d*)-(\d*)$/.exec(spec): whether it matched, and groups 1 and 2.
rangeExec(spec) ==
    LET dashes == { d \in DOMAIN spec :
                      /\ spec[d] = "-"
                      /\ \A i \in DOMAIN spec : i # d => isDigit(spec[i]) }
    IN  IF dashes = {}
        THEN [ matched |-> FALSE, group1 |-> <<>>, group2 |-> <<>> ]
        ELSE LET d == CHOOSE x \in dashes : TRUE
             IN  [ matched |-> TRUE, group1 |-> SubSeq(spec, 1, d - 1),
                   group2 |-> SubSeq(spec, d + 1, Len(spec)) ]

\* Number.parseInt(str, 10) of a non-empty string of digits (the only strings
\* the function passes); the value is an integer.
RECURSIVE parseInt(_)
parseInt(str) ==
    IF str = <<>> THEN 0
    ELSE 10 * parseInt(SubSeq(str, 1, Len(str) - 1)) + digitValue(str[Len(str)])

Max(a, b) == IF a > b THEN a ELSE b

NullRange == [ kind |-> "null", start |-> 0, end |-> 0 ]
ByteRange(start, end) == [ kind |-> "range", start |-> start, end |-> end ]
NoRange == [ kind |-> "pending", start |-> 0, end |-> 0 ]

\* A slip: the requested end is passed on as it is.
clampEnd_NoClamp(requestedEnd, fileSize) == requestedEnd

\* Math.min(requestedEnd, fileSize - 1)
clampEnd(requestedEnd, fileSize) == Min(requestedEnd, fileSize - 1)

\* fileSize is an integer here, so Number.isInteger(fileSize) holds.
parseSingleByteRange(header, fileSize) ==
    IF fileSize <= 0 THEN NullRange
    ELSE LET unitMatch == unitExec(trim(header)) IN
    IF ~unitMatch.matched THEN NullRange
    ELSE LET spec == trim(unitMatch.group1) IN
    IF spec = <<>> \/ includes(spec, ",") THEN NullRange
    ELSE LET rangeMatch == rangeExec(spec) IN
    IF ~rangeMatch.matched THEN NullRange
    ELSE LET startStr == rangeMatch.group1
             endStr == rangeMatch.group2 IN
    IF startStr = <<>> /\ endStr = <<>> THEN NullRange
    ELSE IF startStr = <<>>
    THEN LET suffixLength == parseInt(endStr) IN
         IF suffixLength <= 0 THEN NullRange
         ELSE ByteRange(Max(fileSize - suffixLength, 0), fileSize - 1)
    ELSE LET start == parseInt(startStr) IN
    IF start < 0 \/ start >= fileSize THEN NullRange
    ELSE IF endStr = <<>> THEN ByteRange(start, fileSize - 1)
    ELSE LET requestedEnd == parseInt(endStr) IN
    IF requestedEnd < 0 \/ requestedEnd < start THEN NullRange
    ELSE ByteRange(start, clampEnd(requestedEnd, fileSize))

\* The headers and sizes drawn: a unit, then up to MaxSpecLen characters.
RangeUnits ==
    { << "b", "y", "t", "e", "s", "=" >>, << "B", "y", "t", "e", "S", "=" >>,
      << "i", "t", "e", "m", "s", "=" >>, << " ", "b", "y", "t", "e", "s", "=" >> }
SpecChars == { "0", "1", "-", ",", " ", "a" }
RangeHeaders == { u \o s : u \in RangeUnits, s \in SeqsUpTo(SpecChars, MaxSpecLen) }
RangeFileSizes == { -1, 0, 1, 2, 10, 11, 12 }

(***************************************************************************)
(* Specifications.  Each pure function has one: Init draws its inputs, the *)
(* action calls it once and stores what it returned.                       *)
(***************************************************************************)
\* The result slots hold these until the call returns.
NoReconciliation ==
    [ matches |-> <<>>, newFiles |-> <<>>, ambiguousMatches |-> <<>>,
      unmatchedRecordingIds |-> <<>> ]

TransitionIdle ==
    fromStatus = "IMPORTED" /\ toStatus = "IMPORTED" /\ transitionResult = FALSE
ReconcileIdle ==
    diskFiles = <<>> /\ recordings = <<>> /\ reconciliation = NoReconciliation
MissingIdle ==
    /\ unmatchedRecordingIds = <<>> /\ candidates = <<>>
    /\ discoveredFilePaths = {} /\ toMark = <<>>
GuardIdle ==
    /\ guardInput = [ discoveredAudioFileCount |-> 0, successfulProbeCount |-> 0,
                      failedProbeCount |-> 0 ]
    /\ abortResult = FALSE
SyncIdle ==
    /\ dirFiles = <<>> /\ db = <<>> /\ audioFiles = <<>> /\ failedPaths = {}
    /\ summary = NoSummary /\ syncError = "none"
HistoryIdle == everAmbiguous = {}

HashIdle ==
    /\ fileBytes = <<>> /\ fileSizeBytes = 0 /\ windowBuffer = <<>>
    /\ hashResult = NoHash

TranscribeIdle == transcribeId = <<>> /\ transcribeResponse = NoResponse

RangeIdle == rangeHeader = <<>> /\ rangeFileSize = 0 /\ rangeResult = NoRange

RouteIdle ==
    /\ syncInFlight = Null /\ started = 0 /\ responses = <<>> /\ log = <<>>
    /\ unhandled = FALSE

\* ---- canTransition --------------------------------------------------------
InitTransition ==
    /\ fromStatus \in Statuses
    /\ toStatus \in Statuses
    /\ transitionResult = FALSE
    /\ pc = "call"
    /\ ReconcileIdle /\ MissingIdle /\ GuardIdle /\ SyncIdle /\ RouteIdle /\ HistoryIdle /\ HashIdle
    /\ TranscribeIdle /\ RangeIdle

CallCanTransition ==
    /\ pc = "call"
    /\ pc' = "returned"
    /\ transitionResult' = canTransition(fromStatus, toStatus)
    /\ UNCHANGED << fromStatus, toStatus, reconcileVars, missingVars, guardVars, syncVars,
                    routeVars, historyVars, hashVars, transcribeVars, rangeVars >>

SpecTransition == InitTransition /\ [][CallCanTransition]_vars

\* ---- reconcileLibraryFiles ------------------------------------------------
InitReconcile ==
    /\ diskFiles \in DiskFileSeqs(MaxDiskFiles)
    /\ recordings \in RecordingSeqs(MaxRecordings)
    /\ reconciliation = NoReconciliation
    /\ pc = "call"
    /\ TransitionIdle /\ MissingIdle /\ GuardIdle /\ SyncIdle /\ RouteIdle /\ HistoryIdle /\ HashIdle
    /\ TranscribeIdle /\ RangeIdle

CallReconcile ==
    /\ pc = "call"
    /\ pc' = "returned"
    /\ reconciliation' = reconcileLibraryFiles(diskFiles, recordings)
    /\ UNCHANGED << diskFiles, recordings, transitionVars, missingVars, guardVars, syncVars,
                    routeVars, historyVars, hashVars, transcribeVars, rangeVars >>

SpecReconcile == InitReconcile /\ [][CallReconcile]_vars

\* ---- selectRecordingsToMarkMissing ----------------------------------------
InitMissing ==
    /\ unmatchedRecordingIds \in IdSeqs(MaxRecordings)
    /\ candidates \in CandidateSeqs(MaxRecordings)
    /\ discoveredFilePaths \in SUBSET RecordedPaths
    /\ toMark = <<>>
    /\ pc = "call"
    /\ TransitionIdle /\ ReconcileIdle /\ GuardIdle /\ SyncIdle /\ RouteIdle /\ HistoryIdle /\ HashIdle
    /\ TranscribeIdle /\ RangeIdle

CallSelectMissing ==
    /\ pc = "call"
    /\ pc' = "returned"
    /\ toMark' = selectRecordingsToMarkMissing(unmatchedRecordingIds, candidates,
                                                discoveredFilePaths)
    /\ UNCHANGED << unmatchedRecordingIds, candidates, discoveredFilePaths,
                    transitionVars, reconcileVars, guardVars, syncVars,
                    routeVars, historyVars, hashVars, transcribeVars, rangeVars >>

SpecMissing == InitMissing /\ [][CallSelectMissing]_vars

\* ---- shouldAbortSyncForProbeFailures --------------------------------------
InitGuard ==
    /\ guardInput \in [ discoveredAudioFileCount : 0..MaxCount,
                        successfulProbeCount : 0..MaxCount,
                        failedProbeCount : 0..MaxCount ]
    /\ abortResult = FALSE
    /\ pc = "call"
    /\ TransitionIdle /\ ReconcileIdle /\ MissingIdle /\ SyncIdle /\ RouteIdle /\ HistoryIdle /\ HashIdle
    /\ TranscribeIdle /\ RangeIdle

CallShouldAbort ==
    /\ pc = "call"
    /\ pc' = "returned"
    /\ abortResult' = shouldAbortSyncForProbeFailures(guardInput)
    /\ UNCHANGED << guardInput, transitionVars, reconcileVars, missingVars, syncVars,
                    routeVars, historyVars, hashVars, transcribeVars, rangeVars >>

SpecGuard == InitGuard /\ [][CallShouldAbort]_vars

\* ---- runLibrarySync: one cycle --------------------------------------------
\* pc: "stat" -> "probe" (one step per scanned file) -> "done" | "failed".
InitSync ==
    /\ db \in Catalogs(MaxRecordings)
    /\ dirFiles \in DiskFileSeqs(MaxDiskFiles)
    /\ audioFiles = <<>> /\ failedPaths = {}
    /\ summary = NoSummary /\ syncError = "none"
    /\ pc = "stat"
    /\ TransitionIdle /\ ReconcileIdle /\ MissingIdle /\ GuardIdle
    /\ syncInFlight = Null /\ started = 1 /\ responses = <<>> /\ log = <<>>
    /\ unhandled = FALSE
    /\ HistoryIdle /\ HashIdle
    /\ TranscribeIdle /\ RangeIdle

\* 1. stat(dir) throws: the cycle rejects before anything is read.
SyncStatFails ==
    /\ pc = "stat"
    /\ pc' = "failed"
    /\ syncError' = directoryError
    /\ UNCHANGED << dirFiles, db, audioFiles, failedPaths, summary,
                    transitionVars, reconcileVars, missingVars, guardVars,
                    routeVars, historyVars, hashVars, transcribeVars, rangeVars >>

\* 1-2. stat(dir) succeeds and readdir lists the audio files.
SyncScan ==
    /\ pc = "stat"
    /\ pc' = "probe"
    /\ audioFiles' = [ i \in DOMAIN dirFiles |-> dirFiles[i].filePath ]
    /\ UNCHANGED << dirFiles, db, failedPaths, summary, syncError,
                    transitionVars, reconcileVars, missingVars, guardVars,
                    routeVars, historyVars, hashVars, transcribeVars, rangeVars >>

\* The file the probe loop is at: those before it were pushed or failed.
probeIndex == Len(diskFiles) + Cardinality(failedPaths) + 1

\* 3. probeAudioFile and computeFileHash succeed for the next file.
SyncProbeOk ==
    /\ pc = "probe"
    /\ probeIndex <= Len(audioFiles)
    /\ diskFiles' = Append(diskFiles, [ filePath |-> audioFiles[probeIndex],
                                        fileHash |-> dirFiles[probeIndex].fileHash ])
    /\ UNCHANGED << recordings, reconciliation, pc, syncVars,
                    transitionVars, missingVars, guardVars,
                    routeVars, historyVars, hashVars, transcribeVars, rangeVars >>

\* 3. probeAudioFile or computeFileHash throws for the next file.
SyncProbeFails ==
    /\ pc = "probe"
    /\ probeIndex <= Len(audioFiles)
    /\ failedPaths' = failedPaths \cup { audioFiles[probeIndex] }
    /\ UNCHANGED << dirFiles, db, audioFiles, summary, syncError, pc,
                    transitionVars, reconcileVars, missingVars, guardVars,
                    routeVars, historyVars, hashVars, transcribeVars, rangeVars >>

\* The probe loop is over and the systemic-failure guard trips.
SyncAbort ==
    /\ pc = "probe"
    /\ probeIndex > Len(audioFiles)
    /\ shouldAbortSyncForProbeFailures(probeCounts(audioFiles, diskFiles, failedPaths))
    /\ guardInput' = probeCounts(audioFiles, diskFiles, failedPaths)
    /\ abortResult' = TRUE
    /\ pc' = "failed"
    /\ syncError' = systemicProbeError
    /\ UNCHANGED << dirFiles, db, audioFiles, failedPaths, summary,
                    transitionVars, reconcileVars, missingVars,
                    routeVars, historyVars, hashVars, transcribeVars, rangeVars >>

\* 4-6. Load, reconcile and run the transaction.  better-sqlite3 runs the
\* callback synchronously; a statement that breaks a constraint throws, the
\* transaction rolls back and the cycle rejects.  (Each value computed once
\* is bound by a quantifier over a one-element set.)
SyncCommit ==
    /\ pc = "probe"
    /\ probeIndex > Len(audioFiles)
    /\ ~shouldAbortSyncForProbeFailures(probeCounts(audioFiles, diskFiles, failedPaths))
    /\ guardInput' = probeCounts(audioFiles, diskFiles, failedPaths)
    /\ abortResult' = FALSE
    /\ \E dbRows \in { selectIdentities(db) } :
       \E rec \in { reconcileLibraryFiles(diskFiles, dbRows) } :
       \E marks \in { IF Len(rec.unmatchedRecordingIds) > 0
                      THEN selectRecordingsToMarkMissing(rec.unmatchedRecordingIds,
                               missingTransitionCandidates(dbRows), Range(audioFiles))
                      ELSE <<>> } :
       \E writes \in { transactionWrites(rec, dbRows, diskFiles, marks) } :
       \E trace \in { transactionTrace(db, writes, Len(writes)) } :
           /\ recordings' = dbRows
           /\ reconciliation' = rec
           /\ toMark' = marks
           /\ IF Len(rec.unmatchedRecordingIds) > 0
              THEN /\ unmatchedRecordingIds' = rec.unmatchedRecordingIds
                   /\ candidates' = missingTransitionCandidates(dbRows)
                   /\ discoveredFilePaths' = Range(audioFiles)
              ELSE UNCHANGED << unmatchedRecordingIds, candidates, discoveredFilePaths >>
           /\ IF \A k \in DOMAIN trace : constraintsHold(trace[k])
              THEN /\ db' = trace[Len(trace)]
                   /\ summary' =
                        [ newCount |-> Cardinality({ k \in DOMAIN writes : writes[k].op = "insert" }),
                          updatedCount |-> Cardinality({ k \in DOMAIN writes :
                                               writes[k].op = "update" /\ writes[k].counted }),
                          missingCount |-> Len(marks),
                          ambiguousCount |-> Len(rec.ambiguousMatches),
                          failedCount |-> Cardinality(failedPaths) ]
                   /\ pc' = "done"
                   /\ syncError' = "none"
              ELSE /\ db' = rollback(trace, CHOOSE k \in DOMAIN trace :
                                                ~constraintsHold(trace[k]))
                   /\ pc' = "failed"
                   /\ syncError' = transactionError
                   /\ UNCHANGED summary
    /\ UNCHANGED << dirFiles, audioFiles, failedPaths, diskFiles, transitionVars,
                    routeVars, historyVars, hashVars, transcribeVars, rangeVars >>

\* 6. The k-th statement of the transaction (or its COMMIT) throws for a
\* reason of the store's own (I/O error, locked file) after the statements
\* before it ran: the transaction rolls back and the cycle rejects.
SyncWriteError ==
    /\ pc = "probe"
    /\ probeIndex > Len(audioFiles)
    /\ ~shouldAbortSyncForProbeFailures(probeCounts(audioFiles, diskFiles, failedPaths))
    /\ guardInput' = probeCounts(audioFiles, diskFiles, failedPaths)
    /\ abortResult' = FALSE
    /\ \E dbRows \in { selectIdentities(db) } :
       \E rec \in { reconcileLibraryFiles(diskFiles, dbRows) } :
       \E marks \in { IF Len(rec.unmatchedRecordingIds) > 0
                      THEN selectRecordingsToMarkMissing(rec.unmatchedRecordingIds,
                               missingTransitionCandidates(dbRows), Range(audioFiles))
                      ELSE <<>> } :
       \E writes \in { transactionWrites(rec, dbRows, diskFiles, marks) } :
       \E trace \in { transactionTrace(db, writes, Len(writes)) } :
       \E k \in 1..(Len(writes) + 1) :
           /\ recordings' = dbRows
           /\ reconciliation' = rec
           /\ db' = rollback(trace, k)
    /\ pc' = "failed"
    /\ syncError' = transactionError
    /\ UNCHANGED << dirFiles, audioFiles, failedPaths, summary, diskFiles,
                    transitionVars, missingVars,
                    routeVars, historyVars, hashVars, transcribeVars, rangeVars >>

NextSync ==
    \/ SyncStatFails
    \/ SyncScan
    \/ SyncProbeOk
    \/ SyncProbeFails
    \/ SyncAbort
    \/ SyncCommit
    \/ SyncWriteError

SpecSync == InitSync /\ [][NextSync]_vars

\* selectRecordingsToMarkMissing on drawn inputs, and as the sync cycle calls it.
InitMissingOrSync == InitMissing \/ InitSync
NextMissingOrSync == CallSelectMissing \/ NextSync
SpecMissingOrSync == InitMissingOrSync /\ [][NextMissingOrSync]_vars

\* ---- POST /api/library/sync -----------------------------------------------
\* The server after start-up: an empty catalog, no cycle ever started.  The
\* directory holds up to MaxRouteFiles files and stays as it is.
InitRoute ==
    /\ db = <<>>
    /\ dirFiles \in DiskFileSeqs(MaxRouteFiles)
    /\ audioFiles = <<>> /\ failedPaths = {}
    /\ summary = NoSummary /\ syncError = "none"
    /\ pc = "idle"
    /\ TransitionIdle /\ ReconcileIdle /\ MissingIdle /\ GuardIdle /\ RouteIdle /\ HistoryIdle /\ HashIdle
    /\ TranscribeIdle /\ RangeIdle

\* A cycle settled and its .then / .catch / .finally handlers have not run.
\* They are microtasks: they run before the next request is dispatched.
HandlersPending == pc \in { "done", "failed" } /\ Len(log) < started

\* The handler of one request, start to finish: it starts a cycle when none
\* is in flight (runLibrarySync runs up to its first await, stat) and
\* answers 202 either way.
RoutePost ==
    /\ Len(responses) < MaxRequests
    /\ ~HandlersPending
    /\ IF notInFlight(syncInFlight)
       THEN /\ syncInFlight' = Promise
            /\ started' = started + 1
            /\ pc' = "stat"
            /\ audioFiles' = <<>> /\ failedPaths' = {}
            /\ summary' = NoSummary /\ syncError' = "none"
            /\ diskFiles' = <<>> /\ recordings' = <<>>
            /\ reconciliation' = NoReconciliation
            /\ unmatchedRecordingIds' = <<>> /\ candidates' = <<>>
            /\ discoveredFilePaths' = {} /\ toMark' = <<>>
            /\ guardInput' = [ discoveredAudioFileCount |-> 0, successfulProbeCount |-> 0,
                               failedProbeCount |-> 0 ]
            /\ abortResult' = FALSE
       ELSE UNCHANGED << syncInFlight, started, pc, audioFiles, failedPaths, summary,
                         syncError, reconcileVars, missingVars, guardVars >>
    /\ responses' = Append(responses, Accepted)
    /\ UNCHANGED << dirFiles, db, log, unhandled, transitionVars, historyVars, hashVars, transcribeVars, rangeVars >>

\* The handlers chained on the promise of a settled cycle.
RouteSettle ==
    /\ HandlersPending
    /\ \E after \in { settleChain(pc, summary, syncError, log, syncInFlight) } :
          /\ log' = after.log
          /\ syncInFlight' = after.syncInFlight
          /\ unhandled' = after.unhandled
    /\ UNCHANGED << started, responses, dirFiles, db, audioFiles, failedPaths, summary,
                    syncError, pc, transitionVars, reconcileVars, missingVars, guardVars,
                    historyVars, hashVars, transcribeVars, rangeVars >>

NextRoute ==
    \/ RoutePost
    \/ RouteSettle
    \/ SyncStatFails
    \/ SyncScan
    \/ SyncProbeOk
    \/ SyncProbeFails
    \/ SyncAbort
    \/ SyncCommit
    \/ SyncWriteError

SpecRoute == InitRoute /\ [][NextRoute]_vars

\* ---- runLibrarySync, cycle after cycle ------------------------------------
\* Cycles run one after the other on a directory and a catalog that nothing
\* else touches.
MaxCycles == 2

ambiguousPaths(rec) == { a.filePath : a \in Range(rec.ambiguousMatches) }

\* The next call of runLibrarySync, after the last one resolved or rejected.
\* What a resolved cycle reported ambiguous is remembered, and the outcome of
\* the settled cycle is logged as the route's handlers log it.
SyncAgain ==
    /\ pc \in { "done", "failed" }
    /\ started < MaxCycles
    /\ everAmbiguous' = IF pc = "done"
                        THEN everAmbiguous \cup ambiguousPaths(reconciliation)
                        ELSE everAmbiguous
    /\ started' = started + 1
    /\ pc' = "stat"
    /\ audioFiles' = <<>> /\ failedPaths' = {}
    /\ summary' = NoSummary /\ syncError' = "none"
    /\ diskFiles' = <<>> /\ recordings' = <<>>
    /\ reconciliation' = NoReconciliation
    /\ unmatchedRecordingIds' = <<>> /\ candidates' = <<>>
    /\ discoveredFilePaths' = {} /\ toMark' = <<>>
    /\ guardInput' = [ discoveredAudioFileCount |-> 0, successfulProbeCount |-> 0,
                       failedProbeCount |-> 0 ]
    /\ abortResult' = FALSE
    /\ log' = Append(log, IF pc = "done" THEN completedLine(summary)
                                         ELSE errorLine(syncError))
    /\ UNCHANGED << dirFiles, db, syncInFlight, responses, unhandled, transitionVars,
                    hashVars, transcribeVars, rangeVars >>

NextResync ==
    \/ SyncAgain
    \/ NextSync

SpecResync == InitSync /\ [][NextResync]_vars

\* ---- computeFileHash ------------------------------------------------------
InitHash ==
    /\ fileBytes \in SeqsUpTo(Bytes, MaxFileBytes)
    /\ fileSizeBytes \in FileSizes
    /\ windowBuffer \in [1..FILE_HASH_WINDOW_BYTES -> Bytes]
    /\ hashResult = NoHash
    /\ pc = "open"
    /\ TransitionIdle /\ ReconcileIdle /\ MissingIdle /\ GuardIdle /\ SyncIdle /\ RouteIdle
    /\ HistoryIdle /\ TranscribeIdle /\ RangeIdle

\* open(filePath, "r") or fileHandle.read throws: the call rejects.
HashOpenFails ==
    /\ pc = "open"
    /\ pc' = "threw"
    /\ UNCHANGED << hashVars, transcribeVars, rangeVars, transitionVars, reconcileVars, missingVars, guardVars, syncVars,
                    routeVars, historyVars >>

\* The call reads, hashes and resolves.
CallComputeFileHash ==
    /\ pc = "open"
    /\ pc' = "hashed"
    /\ hashResult' = computeFileHash(fileBytes, fileSizeBytes, windowBuffer)
    /\ UNCHANGED << fileBytes, fileSizeBytes, windowBuffer,
                    transitionVars, reconcileVars, missingVars, guardVars, syncVars,
                    routeVars, historyVars, transcribeVars, rangeVars >>

NextHash ==
    \/ HashOpenFails
    \/ CallComputeFileHash

SpecHash == InitHash /\ [][NextHash]_vars

\* ---- runLibrarySync over rows of every status -----------------------------
\* Other routes move rows through the whole state machine; here the catalog
\* holds rows in any of the nine statuses, in a smaller world.
MaxStatusRows  == 1
MaxStatusFiles == 1

StatusCatalogs(n) ==
    UNION { { [ i \in 1..k |-> [ id |-> IdPool[i], filePath |-> RowPaths[i],
                                 fileHash |-> a[i].fileHash, status |-> a[i].status,
                                 fileLastCheckedAt |-> earlier, updatedAt |-> earlier ] ] :
                a \in [1..k -> [ fileHash : { "hashA", Null }, status : Statuses ]] } :
            k \in 0..n }

InitSyncAnyStatus ==
    /\ db \in StatusCatalogs(MaxStatusRows)
    /\ dirFiles \in DiskFileSeqs(MaxStatusFiles)
    /\ audioFiles = <<>> /\ failedPaths = {}
    /\ summary = NoSummary /\ syncError = "none"
    /\ pc = "stat"
    /\ TransitionIdle /\ ReconcileIdle /\ MissingIdle /\ GuardIdle
    /\ syncInFlight = Null /\ started = 1 /\ responses = <<>> /\ log = <<>>
    /\ unhandled = FALSE
    /\ HistoryIdle /\ HashIdle
    /\ TranscribeIdle /\ RangeIdle

SpecSyncAnyStatus == InitSyncAnyStatus /\ [][NextSync]_vars

\* ---- POST /api/recordings/:id/transcribe ----------------------------------
\* The catalog holds rows of any status; the id asked for is a row's or not.
InitTranscribe ==
    /\ db \in StatusCatalogs(MaxTranscribeRows)
    /\ transcribeId \in { IdPool[i] : i \in 1..(MaxTranscribeRows + 1) }
    /\ transcribeResponse = NoResponse
    /\ dirFiles = <<>> /\ audioFiles = <<>> /\ failedPaths = {}
    /\ summary = NoSummary /\ syncError = "none"
    /\ pc = "call"
    /\ TransitionIdle /\ ReconcileIdle /\ MissingIdle /\ GuardIdle /\ RouteIdle
    /\ HistoryIdle /\ HashIdle /\ RangeIdle

\* The handler selects the row and answers; it writes nothing.
PostTranscribe ==
    /\ pc = "call"
    /\ pc' = "returned"
    /\ transcribeResponse' = transcribeHandler(db, transcribeId)
    /\ UNCHANGED << transcribeId, transitionVars, reconcileVars, missingVars, guardVars,
                    syncVars, routeVars, historyVars, hashVars, rangeVars >>

SpecTranscribe == InitTranscribe /\ [][PostTranscribe]_vars

\* ---- parseSingleByteRange --------------------------------------------------
InitRange ==
    /\ rangeHeader \in RangeHeaders
    /\ rangeFileSize \in RangeFileSizes
    /\ rangeResult = NoRange
    /\ pc = "call"
    /\ TransitionIdle /\ ReconcileIdle /\ MissingIdle /\ GuardIdle /\ SyncIdle /\ RouteIdle
    /\ HistoryIdle /\ HashIdle /\ TranscribeIdle

CallParseSingleByteRange ==
    /\ pc = "call"
    /\ pc' = "returned"
    /\ rangeResult' = parseSingleByteRange(rangeHeader, rangeFileSize)
    /\ UNCHANGED << rangeHeader, rangeFileSize, transitionVars, reconcileVars, missingVars,
                    guardVars, syncVars, routeVars, historyVars, hashVars, transcribeVars >>

SpecRange == InitRange /\ [][CallParseSingleByteRange]_vars

(***************************************************************************)
(* Claims                                                                  *)
(***************************************************************************)
\* The accumulators of reconcileLibraryFiles(diskFiles, recordings): T[k] is
\* their value just before the k-th disk file, T[k + 1] just after it.
LoopTrace == reconcileLoop(diskFiles, recordings, Len(diskFiles))

\* What the k-th disk file added to each bucket.
Added(before, after) == SubSeq(after, Len(before) + 1, Len(after))
FileOutcome(T, k) ==
    [ matches          |-> Added(T[k].matches, T[k + 1].matches),
      newFiles         |-> Added(T[k].newFiles, T[k + 1].newFiles),
      ambiguousMatches |-> Added(T[k].ambiguousMatches, T[k + 1].ambiguousMatches) ]

\* The recordings still unmatched when the k-th disk file is looked at.
AvailableAt(T, k) ==
    { i \in DOMAIN recordings : recordings[i].id \notin T[k].matchedRecordingIds }
\* Those of them at the file's path, and those in FILE_MISSING with its hash.
PathCandidatesAt(T, k) ==
    { i \in AvailableAt(T, k) : recordings[i].filePath = diskFiles[k].filePath }
HashCandidatesAt(T, k) ==
    { i \in AvailableAt(T, k) : /\ recordings[i].status = "FILE_MISSING"
                                /\ recordings[i].fileHash # Null
                                /\ recordings[i].fileHash = diskFiles[k].fileHash }

MatchedIds == { reconciliation.matches[i].recordingId : i \in DOMAIN reconciliation.matches }

\* ---- C1 -------------------------------------------------------------------
\* The transition table as the specification lists it (section 4.2).
C1_Table ==
    [ IMPORTED     |-> { "TRANSCRIBING", "ERROR", "FILE_MISSING" },
      TRANSCRIBING |-> { "TRANSCRIBED", "TRANSCRIBING", "ERROR", "FILE_MISSING" },
      TRANSCRIBED  |-> { "ANALYZING", "TRANSCRIBING", "ERROR", "FILE_MISSING" },
      ANALYZING    |-> { "REVIEWED", "ANALYZING", "ERROR", "FILE_MISSING" },
      REVIEWED     |-> { "EXPORTING", "ANALYZING", "ERROR", "FILE_MISSING" },
      EXPORTING    |-> { "COMPLETED", "ERROR", "FILE_MISSING" },
      COMPLETED    |-> { "REVIEWED", "ERROR", "FILE_MISSING" },
      ERROR        |-> { "TRANSCRIBING", "ANALYZING", "EXPORTING", "FILE_MISSING" },
      FILE_MISSING |-> { "IMPORTED" } ]

\* C1: for each of the 81 ordered pairs of statuses, canTransition returns a
\* boolean, and returns true exactly for the edges of the table.
C1_CanTransitionMatchesTable ==
    pc = "returned" =>
        /\ transitionResult \in BOOLEAN
        /\ transitionResult = (toStatus \in C1_Table[fromStatus])

C1_Witness ==
    /\ pc = "returned"
    /\ fromStatus = "COMPLETED" /\ toStatus = "REVIEWED"
    /\ transitionResult = TRUE

\* ---- C2 -------------------------------------------------------------------
\* C2: a disk file whose path is the path of exactly one still-unmatched
\* recording gets a "path" match to that recording, whatever FILE_MISSING
\* recording carries its hash; the file matches no other recording, and no
\* recording id occurs in two matches.
C2_PathPrecedence ==
    pc = "returned" =>
        LET T == LoopTrace IN
        /\ \A k \in DOMAIN diskFiles :
             Cardinality(PathCandidatesAt(T, k)) = 1 =>
                LET r == recordings[CHOOSE i \in PathCandidatesAt(T, k) : TRUE]
                    expected == [ recordingId |-> r.id,
                                  filePath |-> diskFiles[k].filePath,
                                  fileHash |-> diskFiles[k].fileHash,
                                  reason |-> "path" ]
                IN  /\ expected \in Range(reconciliation.matches)
                    /\ FileOutcome(T, k).matches = << expected >>
        /\ \A i, j \in DOMAIN reconciliation.matches :
             reconciliation.matches[i].recordingId = reconciliation.matches[j].recordingId
                => i = j

\* A file matched by path while another, still unmatched FILE_MISSING
\* recording carries the file's hash.
C2_Witness ==
    /\ pc = "returned"
    /\ LET T == LoopTrace
       IN
        /\ \E k \in DOMAIN diskFiles :
             /\ Cardinality(PathCandidatesAt(T, k)) = 1
             /\ HashCandidatesAt(T, k) \ PathCandidatesAt(T, k) # {}
             /\ FileOutcome(T, k).matches # <<>>
             /\ FileOutcome(T, k).matches[1].reason = "path"

\* ---- C3 -------------------------------------------------------------------
\* C3: every "hash" match (and every "hash" ambiguity candidate) is a
\* recording that came in as FILE_MISSING with a non-null hash equal to the
\* file's; a disk file whose path no recording has and whose hash no
\* FILE_MISSING recording has is a new file.
C3_HashScope ==
    pc = "returned" =>
        LET T == LoopTrace IN
        /\ \A m \in Range(reconciliation.matches) :
             m.reason = "hash" =>
                \E i \in DOMAIN recordings :
                    /\ recordings[i].id = m.recordingId
                    /\ recordings[i].status = "FILE_MISSING"
                    /\ recordings[i].fileHash # Null
                    /\ recordings[i].fileHash = m.fileHash
        /\ \A a \in Range(reconciliation.ambiguousMatches) :
             a.reason = "hash" =>
                \A id \in Range(a.candidateRecordingIds) :
                    \E i \in DOMAIN recordings :
                        /\ recordings[i].id = id
                        /\ recordings[i].status = "FILE_MISSING"
                        /\ recordings[i].fileHash = a.fileHash
        /\ \A k \in DOMAIN diskFiles :
             ( /\ \A i \in DOMAIN recordings :
                    recordings[i].filePath # diskFiles[k].filePath
               /\ \A i \in DOMAIN recordings :
                    recordings[i].fileHash = diskFiles[k].fileHash
                        => recordings[i].status # "FILE_MISSING" )
             => /\ FileOutcome(T, k).newFiles = << diskFiles[k] >>
                /\ diskFiles[k] \in Range(reconciliation.newFiles)

\* A new file whose hash a present (not FILE_MISSING) recording carries, next
\* to a null-hash recording matched by path.
C3_Witness ==
    /\ pc = "returned"
    /\ LET T == LoopTrace
       IN
        /\ \E k \in DOMAIN diskFiles :
             /\ FileOutcome(T, k).newFiles = << diskFiles[k] >>
             /\ \E i \in DOMAIN recordings :
                  /\ recordings[i].fileHash = diskFiles[k].fileHash
                  /\ recordings[i].status # "FILE_MISSING"
        /\ \E m \in Range(reconciliation.matches) :
             /\ m.reason = "path"
             /\ \E i \in DOMAIN recordings :
                  recordings[i].id = m.recordingId /\ recordings[i].fileHash = Null

\* ---- C4 -------------------------------------------------------------------
DistinctDiskPaths ==
    \A i, j \in DOMAIN diskFiles : diskFiles[i].filePath = diskFiles[j].filePath => i = j
DistinctRecordPaths ==
    \A i, j \in DOMAIN recordings : recordings[i].filePath = recordings[j].filePath => i = j

\* C4: with distinct disk paths and distinct recorded paths, no "hash" match
\* moves a recording to another path while a disk file sits at the
\* recording's own path.
C4_NoRelinkWhilePresent ==
    (pc = "returned" /\ DistinctDiskPaths /\ DistinctRecordPaths) =>
        \A m \in Range(reconciliation.matches) :
            \A i \in DOMAIN recordings :
                ( /\ m.reason = "hash"
                  /\ recordings[i].id = m.recordingId
                  /\ m.filePath # recordings[i].filePath )
                => \A k \in DOMAIN diskFiles :
                      diskFiles[k].filePath # recordings[i].filePath

\* ---- C5 -------------------------------------------------------------------
\* The candidates the k-th file has: by path, or by hash when none by path.
CandidatesAt(T, k) ==
    IF PathCandidatesAt(T, k) # {} THEN PathCandidatesAt(T, k) ELSE HashCandidatesAt(T, k)
ReasonAt(T, k) == IF PathCandidatesAt(T, k) # {} THEN "path" ELSE "hash"

\* C5: a disk file with more than one available candidate yields exactly one
\* ambiguous entry listing all of them in ascending order, no match and no
\* new file; it consumes none of them, and a candidate no file matches ends
\* in unmatchedRecordingIds.
C5_AmbiguityNotResolved ==
    pc = "returned" =>
        LET T == LoopTrace
        IN
        \A k \in DOMAIN diskFiles :
            Cardinality(CandidatesAt(T, k)) > 1 =>
                LET out == FileOutcome(T, k)
                    ids == { recordings[i].id : i \in CandidatesAt(T, k) }
                IN  /\ Len(out.ambiguousMatches) = 1
                    /\ out.matches = <<>>
                    /\ out.newFiles = <<>>
                    /\ LET e == out.ambiguousMatches[1]
                       IN  /\ e.reason = ReasonAt(T, k)
                           /\ e.filePath = diskFiles[k].filePath
                           /\ e.fileHash = diskFiles[k].fileHash
                           /\ Range(e.candidateRecordingIds) = ids
                           /\ Len(e.candidateRecordingIds) = Cardinality(ids)
                           /\ \A i \in 1..(Len(e.candidateRecordingIds) - 1) :
                                StrLess(e.candidateRecordingIds[i],
                                        e.candidateRecordingIds[i + 1])
                           /\ e \in Range(reconciliation.ambiguousMatches)
                    /\ T[k + 1].matchedRecordingIds = T[k].matchedRecordingIds
                    /\ \A id \in ids :
                         id \notin MatchedIds
                            => id \in Range(reconciliation.unmatchedRecordingIds)

\* An ambiguous file, one of whose candidates a later file matched and
\* another of whose candidates stayed unmatched.
C5_Witness ==
    /\ pc = "returned"
    /\ LET T == LoopTrace
       IN
        /\ \E k \in DOMAIN diskFiles :
             /\ Cardinality(CandidatesAt(T, k)) > 1
             /\ \E i, j \in CandidatesAt(T, k) :
                  /\ recordings[i].id \in MatchedIds
                  /\ recordings[j].id \in Range(reconciliation.unmatchedRecordingIds)

\* ---- C6 -------------------------------------------------------------------
\* C6: every recording id is either the recordingId of a match or listed in
\* unmatchedRecordingIds, never both, and unmatchedRecordingIds keeps the
\* input order of the recordings.
C6_UnmatchedComplete ==
    pc = "returned" =>
        /\ \A i \in DOMAIN recordings :
             (recordings[i].id \in MatchedIds)
                # (recordings[i].id \in Range(reconciliation.unmatchedRecordingIds))
        /\ reconciliation.unmatchedRecordingIds =
             SelectSeq(mapId(recordings), LAMBDA id : id \notin MatchedIds)

C6_Witness ==
    /\ pc = "returned"
    /\ MatchedIds # {}
    /\ Len(reconciliation.unmatchedRecordingIds) > 0

\* ---- C7 -------------------------------------------------------------------
\* C7: every disk file lands in exactly one of matches, newFiles and
\* ambiguousMatches, as an entry carrying its path and hash.
C7_OneBucketPerFile ==
    pc = "returned" =>
        LET T == LoopTrace IN
        /\ Len(reconciliation.matches) + Len(reconciliation.newFiles)
             + Len(reconciliation.ambiguousMatches) = Len(diskFiles)
        /\ \A k \in DOMAIN diskFiles :
             LET out == FileOutcome(T, k)
                 all == out.matches \o out.newFiles \o out.ambiguousMatches
             IN  /\ Len(all) = 1
                 /\ all[1].filePath = diskFiles[k].filePath
                 /\ all[1].fileHash = diskFiles[k].fileHash
        /\ T[Len(diskFiles) + 1].matches = reconciliation.matches
        /\ T[Len(diskFiles) + 1].newFiles = reconciliation.newFiles
        /\ T[Len(diskFiles) + 1].ambiguousMatches = reconciliation.ambiguousMatches

\* A result with a match and an ambiguous entry.
C7_Witness ==
    /\ pc = "returned"
    /\ Len(reconciliation.matches) > 0
    /\ Len(reconciliation.ambiguousMatches) > 0

\* ---- C8 -------------------------------------------------------------------
\* The loaded row with that id.
LoadedRow(id) == rowById(recordings, id)

\* C8: selectRecordingsToMarkMissing never returns the id of a candidate
\* whose path was discovered; the sync cycle passes every scanned path, the
\* failed probes included, as the discovered set, and no cycle moves to
\* FILE_MISSING a row whose path the directory scan of that cycle listed.
C8_PresentNeverMissing ==
    /\ pc = "returned" =>
          \A i \in DOMAIN candidates :
              candidates[i].id \in Range(toMark) =>
                  candidates[i].filePath \notin discoveredFilePaths
    /\ pc \in { "probe", "done", "failed" } /\ syncError # "directory" =>
          /\ Range(audioFiles) = { dirFiles[i].filePath : i \in DOMAIN dirFiles }
          /\ failedPaths \subseteq Range(audioFiles)
    /\ pc = "done" =>
          /\ unmatchedRecordingIds # <<>> => discoveredFilePaths = Range(audioFiles)
          /\ \A id \in Range(toMark) : LoadedRow(id).filePath \notin Range(audioFiles)
          /\ \A i \in DOMAIN recordings :
                ( /\ recordings[i].filePath \in Range(audioFiles)
                  /\ recordings[i].status # "FILE_MISSING" )
                => \A j \in DOMAIN db :
                      db[j].id = recordings[i].id => db[j].status # "FILE_MISSING"

\* A cycle in which the probe of a tracked file failed, the row stays as it
\* was, and another row whose file is gone is marked.
C8_Witness ==
    /\ pc = "done"
    /\ toMark # <<>>
    /\ \E i \in DOMAIN recordings :
          /\ recordings[i].filePath \in failedPaths
          /\ recordings[i].status # "FILE_MISSING"
          /\ recordings[i].id \in Range(unmatchedRecordingIds)
          /\ \E j \in DOMAIN db :
                db[j].id = recordings[i].id /\ db[j].status = recordings[i].status

\* ---- C9 -------------------------------------------------------------------
\* C9: the ids returned are, in candidate order, those of the candidates
\* that are unmatched, whose path was not discovered and whose status may
\* move to FILE_MISSING; none is already FILE_MISSING, each is an unmatched
\* id with a candidate entry, and no unmatched id means an empty result.
C9_SelectsExactly ==
    pc = "returned" =>
        /\ toMark = mapId(SelectSeq(candidates, LAMBDA c :
                        /\ c.id \in Range(unmatchedRecordingIds)
                        /\ c.filePath \notin discoveredFilePaths
                        /\ "FILE_MISSING" \in C1_Table[c.status]))
        /\ Range(toMark) \subseteq Range(unmatchedRecordingIds)
        /\ \A id \in Range(toMark) :
             \E i \in DOMAIN candidates :
                candidates[i].id = id /\ candidates[i].status # "FILE_MISSING"
        /\ (unmatchedRecordingIds = <<>> => toMark = <<>>)

\* Every candidate returned, while the unmatched ids arrive in another order.
C9_Witness ==
    /\ pc = "returned"
    /\ Len(toMark) = MaxRecordings
    /\ unmatchedRecordingIds # toMark

\* ---- C10 ------------------------------------------------------------------
\* C10: the guard is true exactly when files were discovered, at least one
\* probe failed and none succeeded.
C10_AbortThreshold ==
    pc = "returned" =>
        /\ abortResult = ( /\ guardInput.discoveredAudioFileCount > 0
                           /\ guardInput.failedProbeCount > 0
                           /\ guardInput.successfulProbeCount = 0 )
        /\ (guardInput.successfulProbeCount >= 1 => abortResult = FALSE)
        /\ (guardInput.discoveredAudioFileCount = 0 => abortResult = FALSE)

C10_Witness ==
    /\ pc = "returned"
    /\ abortResult = TRUE
    /\ guardInput.failedProbeCount = guardInput.discoveredAudioFileCount

\* ---- C11 ------------------------------------------------------------------
\* The probe loop is over, files were scanned and every one of them failed.
AllProbesFailed ==
    /\ pc = "probe"
    /\ probeIndex > Len(audioFiles)
    /\ Len(audioFiles) > 0
    /\ diskFiles = <<>>

\* C11: when at least one file was scanned and every scanned file failed to
\* probe, the cycle's next step is its rejection with the systemic-failure
\* error, and that step (like every step that ends in this rejection) leaves
\* the catalog exactly as it was: nothing inserted, updated or marked.
C11_SystemicAbort ==
    [][ /\ AllProbesFailed => (pc' = "failed" /\ syncError' = "probe" /\ db' = db)
        /\ (pc' = "failed" /\ syncError' = "probe") => (AllProbesFailed /\ db' = db)
      ]_vars

\* An aborted cycle over a catalog that a commit would have changed: a row
\* whose file is not in the directory and is not yet FILE_MISSING.
C11_Witness ==
    /\ pc = "failed" /\ syncError = "probe"
    /\ Cardinality(failedPaths) > 1
    /\ \E i \in DOMAIN db :
          db[i].status # "FILE_MISSING" /\ db[i].filePath \notin Range(audioFiles)

\* ---- C12 ------------------------------------------------------------------
\* The rows of the two tables agree on id, filePath, fileHash, status and
\* fileLastCheckedAt, and neither has a row the other lacks.
SameCatalog(t1, t2) ==
    /\ Len(t1) = Len(t2)
    /\ \A i \in DOMAIN t1 :
          /\ t1[i].id = t2[i].id
          /\ t1[i].filePath = t2[i].filePath
          /\ t1[i].fileHash = t2[i].fileHash
          /\ t1[i].status = t2[i].status
          /\ t1[i].fileLastCheckedAt = t2[i].fileLastCheckedAt

\* C12: every step of a cycle except its successful commit - in particular
\* each of the three rejections: directory, systemic probe failure, a
\* statement of the transaction throwing after earlier ones ran - leaves the
\* catalog as it was; a cycle that ends failed has changed nothing.
C12_AllOrNothing ==
    [][ /\ pc' # "done" => SameCatalog(db, db')
        /\ pc' = "failed" =>
              /\ syncError' \in { "directory", "probe", "transaction" }
              /\ SameCatalog(db, db')
      ]_vars

\* A cycle that failed in the transaction when at least two statements were
\* to run.
C12_Witness ==
    /\ pc = "failed" /\ syncError = "transaction"
    /\ Len(reconciliation.matches) > 0
    /\ Len(reconciliation.newFiles) > 0
    /\ \A i \in DOMAIN db : db[i].updatedAt = earlier

\* ---- C13 ------------------------------------------------------------------
\* The row of the table with that id (ids are the primary key).
StoredRow(id) == rowById(db, id)
HasRow(id) == \E j \in DOMAIN db : db[j].id = id

\* Recording r and probed file f are in the situation of a moved file: r is
\* the only FILE_MISSING recording with f's hash, no recording is at f's
\* path, no probed file is at r's path, f is the only probed file with that
\* hash.
MovedFile(r, f) ==
    /\ r.status = "FILE_MISSING"
    /\ r.fileHash # Null
    /\ r.fileHash = f.fileHash
    /\ \A i \in DOMAIN recordings :
          /\ (recordings[i].status = "FILE_MISSING" /\ recordings[i].fileHash = r.fileHash)
                => recordings[i].id = r.id
          /\ recordings[i].filePath # f.filePath
    /\ \A k \in DOMAIN diskFiles :
          /\ diskFiles[k].filePath # r.filePath
          /\ diskFiles[k].fileHash = f.fileHash => diskFiles[k] = f

\* C13: in a successful cycle, a moved file gives exactly one match for the
\* recording, a "hash" match to the file's path; the row keeps its id and
\* ends with that path, IMPORTED, the file's hash and fileLastCheckedAt set
\* by this cycle; no other row holds the path and the file is not reported
\* new.
C13_HashRecovery ==
    pc = "done" =>
        \A r \in Range(recordings) : \A f \in Range(diskFiles) :
            MovedFile(r, f) =>
                /\ \A m \in Range(reconciliation.matches) :
                      (m.recordingId = r.id \/ m.filePath = f.filePath) =>
                          m = [ recordingId |-> r.id, filePath |-> f.filePath,
                                fileHash |-> f.fileHash, reason |-> "hash" ]
                /\ Cardinality({ k \in DOMAIN reconciliation.matches :
                                   reconciliation.matches[k].recordingId = r.id }) = 1
                /\ HasRow(r.id)
                /\ StoredRow(r.id).filePath = f.filePath
                /\ StoredRow(r.id).status = "IMPORTED"
                /\ StoredRow(r.id).fileHash = f.fileHash
                /\ StoredRow(r.id).fileLastCheckedAt = now
                /\ \A j \in DOMAIN db : db[j].filePath = f.filePath => db[j].id = r.id
                /\ \A k \in DOMAIN reconciliation.newFiles :
                      reconciliation.newFiles[k].filePath # f.filePath
                /\ Len(db) = Len(recordings) + Len(reconciliation.newFiles)

\* A successful cycle with a moved file, next to a second recording and a
\* second scanned file.
C13_Witness ==
    /\ pc = "done"
    /\ Len(recordings) > 1
    /\ Len(audioFiles) > 1
    /\ \E r \in Range(recordings) : \E f \in Range(diskFiles) : MovedFile(r, f)

\* ---- C14 ------------------------------------------------------------------
\* The file of recording r was renamed to f: r is tracked (not FILE_MISSING)
\* with a hash, nothing is left in the directory at r's path, f has r's hash
\* at a path no recording holds, and no other recording or probed file has
\* that hash.
RenamedFile(r, f) ==
    /\ r.status # "FILE_MISSING"
    /\ r.fileHash # Null
    /\ r.fileHash = f.fileHash
    /\ r.filePath \notin Range(audioFiles)
    /\ \A i \in DOMAIN recordings :
          /\ recordings[i].fileHash = r.fileHash => recordings[i].id = r.id
          /\ recordings[i].filePath # f.filePath
    /\ \A k \in DOMAIN diskFiles :
          diskFiles[k].fileHash = f.fileHash => diskFiles[k] = f

\* C14: after a successful cycle, the row of a recording whose file was
\* renamed holds the new path, and no row was created for the renamed file.
C14_RenameUpdatesPath ==
    pc = "done" =>
        \A r \in Range(recordings) : \A f \in Range(diskFiles) :
            RenamedFile(r, f) =>
                /\ StoredRow(r.id).filePath = f.filePath
                /\ \A j \in DOMAIN db : db[j].filePath = f.filePath => db[j].id = r.id

\* ---- C15 ------------------------------------------------------------------
\* What a successful cycle leaves of a recording matched by path: same id
\* and path, fileLastCheckedAt set, the observed hash if it had none, and
\* IMPORTED if it was FILE_MISSING.
PathMatchApplied ==
    \A m \in Range(reconciliation.matches) :
        m.reason = "path" =>
            /\ HasRow(m.recordingId)
            /\ StoredRow(m.recordingId).filePath = m.filePath
            /\ StoredRow(m.recordingId).filePath = LoadedRow(m.recordingId).filePath
            /\ StoredRow(m.recordingId).fileLastCheckedAt = now
            /\ LoadedRow(m.recordingId).fileHash = Null =>
                  StoredRow(m.recordingId).fileHash = m.fileHash
            /\ LoadedRow(m.recordingId).status = "FILE_MISSING" =>
                  StoredRow(m.recordingId).status = "IMPORTED"

\* A FILE_MISSING recording whose file is back at its path ends the cycle
\* IMPORTED at that path under its id, and the path has no other row.
ReappearedRecovered ==
    \A r \in Range(recordings) : \A f \in Range(diskFiles) :
        (r.status = "FILE_MISSING" /\ f.filePath = r.filePath) =>
            /\ StoredRow(r.id).status = "IMPORTED"
            /\ StoredRow(r.id).filePath = r.filePath
            /\ \A j \in DOMAIN db : db[j].filePath = r.filePath => db[j].id = r.id

\* C15: a successful cycle applies every path match (fileLastCheckedAt,
\* hash backfill, FILE_MISSING -> IMPORTED), and so a FILE_MISSING recording
\* whose file reappears at its path returns to IMPORTED under its id with
\* no second row for that path.
C15_PathMatchRecovery ==
    pc = "done" => (PathMatchApplied /\ ReappearedRecovered)

\* ---- C16 ------------------------------------------------------------------
\* The ids of the loaded rows the cycle moved to FILE_MISSING.
NewlyMissing ==
    { r.id : r \in { x \in Range(recordings) :
                       x.status # "FILE_MISSING" /\ StoredRow(x.id).status = "FILE_MISSING" } }

\* C16: after a successful cycle the rows moved to FILE_MISSING are exactly
\* the ids selectRecordingsToMarkMissing returned, which are exactly the
\* loaded rows that were not FILE_MISSING and whose path the scan did not
\* list; no inserted row is FILE_MISSING.
C16_ExactlyGuardedSubset ==
    pc = "done" =>
        /\ NewlyMissing = Range(toMark)
        /\ NewlyMissing =
              { r.id : r \in { x \in Range(recordings) :
                                 x.status # "FILE_MISSING"
                                 /\ x.filePath \notin Range(audioFiles) } }
        /\ \A j \in DOMAIN db :
              db[j].status = "FILE_MISSING" =>
                  \E r \in Range(recordings) :
                      r.id = db[j].id /\ (r.status = "FILE_MISSING" \/ r.id \in Range(toMark))

\* A successful cycle that marks more than one row and inserts a file.
C16_Witness ==
    /\ pc = "done"
    /\ Len(toMark) > 1
    /\ Len(reconciliation.newFiles) > 0
    /\ summary.missingCount = Len(toMark)

\* ---- C17 ------------------------------------------------------------------
\* A cycle is running: started and not yet resolved or rejected.
CycleRunning == pc \in { "stat", "probe" }

\* C17: never more than one cycle started and not settled; runLibrarySync
\* is called only when no cycle is running and the handlers of the last one
\* have run; a request handled while a cycle runs starts none and leaves
\* the running cycle as it is.
C17_AtMostOneInFlight ==
    /\ [](started - Len(log) \in { 0, 1 })
    /\ [][ /\ started' # started =>
                (~CycleRunning /\ ~HandlersPending /\ started' = started + 1)
           /\ (responses' # responses /\ CycleRunning) =>
                /\ started' = started
                /\ UNCHANGED << syncInFlight, pc, syncVars, reconcileVars, missingVars, guardVars >>
         ]_vars

\* A request was answered while a cycle was running and joined it.
C17_Witness ==
    /\ pc = "probe"
    /\ started > 1
    /\ Len(responses) = started + 1

\* ---- C18 ------------------------------------------------------------------
\* C18: syncInFlight is set exactly while a cycle is started and its
\* handlers have not run; the handlers clear it whether the cycle resolved
\* or rejected; a request handled when it is null starts a fresh cycle.
C18_HandleLifecycle ==
    /\ []( /\ (Len(log) = started) <=> (syncInFlight = Null)
           /\ CycleRunning => syncInFlight # Null )
    /\ [][ /\ log' # log => (pc \in { "done", "failed" } /\ syncInFlight' = Null)
           /\ (responses' # responses /\ syncInFlight = Null) =>
                (started' = started + 1 /\ pc' = "stat" /\ syncInFlight' # Null)
         ]_vars

\* A fresh cycle was started after a cycle that failed.
C18_Witness ==
    /\ pc = "stat"
    /\ started > 1
    /\ log[Len(log)].kind = "error"
    /\ syncInFlight # Null

\* ---- C19 ------------------------------------------------------------------
\* C19: every request is answered in the step that handles it, with 202
\* and "sync_started", whether it starts a cycle or joins one, and the
\* handler never waits (it can run whenever no handler of a settled cycle is
\* pending); the outcome of a cycle only appears as one log line written
\* after it settled - the five counts of a resolved cycle, the error of a
\* rejected one - and no rejection is left unhandled.
C19_ImmediateAck ==
    /\ []( /\ \A i \in DOMAIN responses : responses[i] = Accepted
           /\ unhandled = FALSE
           /\ (Len(responses) < MaxRequests /\ ~HandlersPending) => ENABLED RoutePost )
    /\ [][ /\ responses' # responses =>
                (responses' = Append(responses, Accepted) /\ log' = log)
           /\ log' # log =>
                /\ pc \in { "done", "failed" }
                /\ responses' = responses
                /\ log' = Append(log, IF pc = "done" THEN completedLine(summary)
                                                      ELSE errorLine(syncError))
         ]_vars

\* Requests were answered while a cycle was running, after one cycle
\* resolved and another was rejected.
C19_Witness ==
    /\ CycleRunning
    /\ Len(responses) > Len(log)
    /\ \E i, j \in DOMAIN log : log[i].kind = "completed" /\ log[j].kind = "error"

\* ---- C20 ------------------------------------------------------------------
\* C20: with the directory and the catalog changed by sync cycles only, a
\* file that a successful cycle reported ambiguous is reported ambiguous
\* again by every later successful cycle, which neither links it to a
\* recording nor inserts a record for it.
C20_AmbiguousPersists ==
    pc = "done" =>
        \A p \in everAmbiguous :
            /\ p \in ambiguousPaths(reconciliation)
            /\ \A m \in Range(reconciliation.matches) : m.filePath # p
            /\ \A f \in Range(reconciliation.newFiles) : f.filePath # p

\* ---- C21 ------------------------------------------------------------------
\* The probe loop is over with at least one file probed (or none scanned).
GuardPassed ==
    /\ pc = "probe"
    /\ probeIndex > Len(audioFiles)
    /\ ~AllProbesFailed

ProbedOk == SelectSeq(dirFiles, LAMBDA f : f.filePath \notin failedPaths)

\* The rows the cycle inserted: those whose id was not loaded.
InsertedRows == { r \in Range(db) : \A x \in Range(recordings) : x.id # r.id }

\* C22: once the loop is over with a file probed, the cycle can commit and
\* cannot abort, however many probes threw; successes and failures add up to
\* the files scanned.  In a cycle that resolved, the files whose probe threw
\* are not among diskFiles, so they are in no match, no newFiles entry and no
\* ambiguous entry and no row was inserted for them; failedCount counts
\* them; the other files were reconciled against the loaded rows and every
\* newFiles entry has its row, every match its fileLastCheckedAt.
C22_PerFileFailureTolerated ==
    /\ (pc = "probe" /\ probeIndex > Len(audioFiles) /\ diskFiles # <<>>) =>
          /\ ENABLED SyncCommit
          /\ ~ENABLED SyncAbort
          /\ Len(diskFiles) + Cardinality(failedPaths) = Len(audioFiles)
    /\ pc = "done" =>
          /\ Len(diskFiles) + Cardinality(failedPaths) = Len(audioFiles)
          /\ summary.failedCount = Cardinality(failedPaths)
          /\ diskFiles = ProbedOk
          /\ reconciliation = reconcileLibraryFiles(ProbedOk, recordings)
          /\ \A p \in failedPaths :
                /\ \A m \in Range(reconciliation.matches) : m.filePath # p
                /\ \A f \in Range(reconciliation.newFiles) : f.filePath # p
                /\ \A a \in Range(reconciliation.ambiguousMatches) : a.filePath # p
                /\ \A r \in InsertedRows : r.filePath # p
          /\ \A f \in Range(reconciliation.newFiles) :
                \E r \in InsertedRows : r.filePath = f.filePath /\ r.fileHash = f.fileHash
          /\ \A m \in Range(reconciliation.matches) :
                StoredRow(m.recordingId).fileLastCheckedAt = now

\* A cycle resolved after one probe threw; the other file was inserted and
\* the file that failed has no row.
C22_Witness ==
    /\ pc = "done"
    /\ Cardinality(failedPaths) = 1
    /\ Len(reconciliation.newFiles) = 1
    /\ \A r \in Range(db) : r.filePath \notin failedPaths

\* ---- C23 ------------------------------------------------------------------
\* The step of the transaction a statement belongs to: 1 the UPDATE of a
\* path match, 2 the UPDATE of a hash match, 3 an INSERT, 4 the UPDATE that
\* marks rows FILE_MISSING.
StepOf(w) ==
    IF w.op = "insert" THEN 3
    ELSE IF "filePath" \in DOMAIN w.set THEN 2
    ELSE IF "status" \in DOMAIN w.set /\ w.set["status"] = "FILE_MISSING" THEN 4
    ELSE 1

\* C23: the commit of a cycle applies its statements in the order path
\* matches, hash matches, inserts, missing transition, one after the other
\* on the table; no recording is both matched and marked FILE_MISSING by the
\* cycle, and a matched recording that was FILE_MISSING - or that was
\* matched by hash - is IMPORTED when the cycle ends; no matched recording
\* ends FILE_MISSING.
C23_FixedMutationOrder ==
    [][ pc' = "done" =>
          LET W == transactionWrites(reconciliation', recordings', diskFiles, toMark')
              matched == { m.recordingId : m \in Range(reconciliation'.matches) }
          IN  /\ \A i, j \in DOMAIN W : i < j => StepOf(W[i]) <= StepOf(W[j])
              /\ db' = transactionTrace(db, W, Len(W))[Len(W) + 1]
              /\ matched \cap Range(toMark') = {}
              /\ \A m \in Range(reconciliation'.matches) :
                    LET before == rowById(recordings', m.recordingId)
                        after  == rowById(db', m.recordingId)
                    IN  /\ after.status # "FILE_MISSING"
                        /\ (m.reason = "hash" \/ before.status = "FILE_MISSING")
                              => after.status = "IMPORTED"
      ]_vars

\* A resolved cycle that revived one recording by a match and marked
\* another one FILE_MISSING.
C23_Witness ==
    /\ pc = "done"
    /\ Len(toMark) > 0
    /\ \E m \in Range(reconciliation.matches) :
          /\ LoadedRow(m.recordingId).status = "FILE_MISSING"
          /\ StoredRow(m.recordingId).status = "IMPORTED"

\* ---- C24 ------------------------------------------------------------------
\* C24: after a resolved cycle the rows it inserted are IMPORTED and
\* correspond one to one to the newFiles entries, each with the path and
\* hash of its entry; newCount counts them; no row was inserted at the path
\* of a matched file, of an ambiguous file or of a file whose probe threw,
\* and the rows that were loaded are all still there.
C24_InsertsAreImportedNewFiles ==
    pc = "done" =>
        /\ \A r \in InsertedRows :
              /\ r.status = "IMPORTED"
              /\ \E f \in Range(reconciliation.newFiles) :
                    f.filePath = r.filePath /\ f.fileHash = r.fileHash
        /\ \A i \in DOMAIN reconciliation.newFiles :
              Cardinality({ j \in DOMAIN db :
                              /\ db[j] \in InsertedRows
                              /\ db[j].filePath = reconciliation.newFiles[i].filePath
                              /\ db[j].fileHash = reconciliation.newFiles[i].fileHash }) = 1
        /\ Cardinality(InsertedRows) = Len(reconciliation.newFiles)
        /\ summary.newCount = Cardinality(InsertedRows)
        /\ Len(db) = Len(recordings) + Len(reconciliation.newFiles)
        /\ \A r \in InsertedRows :
              /\ \A m \in Range(reconciliation.matches) : m.filePath # r.filePath
              /\ \A a \in Range(reconciliation.ambiguousMatches) : a.filePath # r.filePath
              /\ r.filePath \notin failedPaths
        /\ \A x \in Range(recordings) : HasRow(x.id)

\* A resolved cycle that inserted a row for one file while another file was
\* matched, ambiguous or failed to probe.
C24_Witness ==
    /\ pc = "done"
    /\ Cardinality(InsertedRows) = 1
    /\ Len(audioFiles) > 1

\* ---- C25 ------------------------------------------------------------------
\* Recording r is a candidate for disk file f: by path, or by hash while
\* FILE_MISSING.
CandidateFor(r, f) ==
    \/ r.filePath = f.filePath
    \/ (r.status = "FILE_MISSING" /\ r.fileHash = f.fileHash)

\* No recording is a candidate for more than one disk file.
NoCompetition ==
    \A r \in Range(recordings) :
        Cardinality({ k \in DOMAIN diskFiles : CandidateFor(r, diskFiles[k]) }) <= 1

\* The orders in which the disk files can be listed.
Reorderings(files) ==
    { [ i \in DOMAIN files |-> files[p[i]] ] :
        p \in { q \in [DOMAIN files -> DOMAIN files] :
                  \A i, j \in DOMAIN files : q[i] = q[j] => i = j } }

\* C25: the result is the value of the function on its two arguments, and
\* when no recording is a candidate for more than one disk file, listing
\* the disk files in any other order gives the same matches, the same
\* newFiles and the same ambiguousMatches as sets, and the same
\* unmatchedRecordingIds.
C25_OrderIndependent ==
    pc = "returned" =>
        /\ reconciliation = reconcileLibraryFiles(diskFiles, recordings)
        /\ NoCompetition =>
              \A files \in Reorderings(diskFiles) :
                  LET out == reconcileLibraryFiles(files, recordings)
                  IN  /\ Range(out.matches) = Range(reconciliation.matches)
                      /\ Range(out.newFiles) = Range(reconciliation.newFiles)
                      /\ Range(out.ambiguousMatches) = Range(reconciliation.ambiguousMatches)
                      /\ out.unmatchedRecordingIds = reconciliation.unmatchedRecordingIds

\* Two disk files, no competition, and a result with a match and an entry of
\* another kind.
C25_Witness ==
    /\ pc = "returned"
    /\ Len(diskFiles) > 1
    /\ NoCompetition
    /\ Len(reconciliation.matches) > 0
    /\ Len(reconciliation.newFiles) + Len(reconciliation.ambiguousMatches) > 0

\* ---- C26 ------------------------------------------------------------------
\* The bytes of the file that lie inside the window.
Window(bytes) == SubSeq(bytes, 1, Min(FILE_HASH_WINDOW_BYTES, Len(bytes)))

\* The number eight bytes spell, least significant byte first.
RECURSIVE LittleEndian(_, _)
LittleEndian(b, i) == IF i > Len(b) THEN 0 ELSE b[i] + 256 * LittleEndian(b, i + 1)

\* C26: the fingerprint is the digest of the file's bytes inside the window
\* followed by eight bytes that spell the declared size least significant
\* byte first.  It does not depend on what the allocated memory held, nor on
\* the bytes past the window; and a file and size give the same fingerprint
\* only if they agree on the bytes inside the window and on the size.
C26_FingerprintOfWindowAndSize ==
    pc = "hashed" =>
        /\ \E suffix \in { SubSeq(hashResult.sha256, Len(hashResult.sha256) - 7,
                                  Len(hashResult.sha256)) } :
              /\ Len(suffix) = 8
              /\ LittleEndian(suffix, 1) = fileSizeBytes
              /\ hashResult = sha256Hex(Window(fileBytes) \o suffix)
        /\ \A allocated \in [1..FILE_HASH_WINDOW_BYTES -> Bytes] :
              computeFileHash(fileBytes, fileSizeBytes, allocated) = hashResult
        /\ \A other \in SeqsUpTo(Bytes, MaxFileBytes), size \in FileSizes :
              (computeFileHash(other, size, windowBuffer) = hashResult)
                  <=> (Window(other) = Window(fileBytes) /\ size = fileSizeBytes)

\* A file longer than the window was fingerprinted, with a declared size
\* that needs more than one byte.
C26_Witness ==
    /\ pc = "hashed"
    /\ Len(fileBytes) > FILE_HASH_WINDOW_BYTES
    /\ fileSizeBytes > 255
    /\ fileBytes[Len(fileBytes)] # fileBytes[1]

\* ---- C27 ------------------------------------------------------------------
\* The path matches of the cycle that wrote a hash where there was none or
\* brought a FILE_MISSING row back.
RepairingPathMatches ==
    { i \in DOMAIN reconciliation.matches :
        /\ reconciliation.matches[i].reason = "path"
        /\ \/ LoadedRow(reconciliation.matches[i].recordingId).fileHash = Null
           \/ LoadedRow(reconciliation.matches[i].recordingId).status = "FILE_MISSING" }

HashMatches ==
    { i \in DOMAIN reconciliation.matches : reconciliation.matches[i].reason = "hash" }

\* C27: the summary of a resolved cycle counts what the cycle did: newCount
\* the rows inserted (one per newFiles entry), missingCount the rows moved
\* to FILE_MISSING, ambiguousCount the ambiguous entries, failedCount the
\* scanned files whose probe threw, updatedCount the hash matches plus the
\* path matches that backfilled a hash or reset FILE_MISSING.
C27_SummaryCounts ==
    pc = "done" =>
        /\ summary.newCount = Cardinality(InsertedRows)
        /\ summary.newCount = Len(reconciliation.newFiles)
        /\ summary.missingCount = Cardinality(NewlyMissing)
        /\ summary.ambiguousCount = Len(reconciliation.ambiguousMatches)
        /\ summary.failedCount = Cardinality(failedPaths)
        /\ summary.failedCount = Len(audioFiles) - Len(diskFiles)
        /\ summary.updatedCount = Cardinality(HashMatches) + Cardinality(RepairingPathMatches)

\* A resolved cycle with a path match that repaired nothing next to a match
\* that is counted.
C27_Witness ==
    /\ pc = "done"
    /\ Len(reconciliation.matches) > 1
    /\ summary.updatedCount = 1

\* ---- C28 ------------------------------------------------------------------
\* C28: canTransition(s, ERROR) is true for each of the nine statuses s.
C28_AnyStateToError ==
    (pc = "returned" /\ toStatus = "ERROR") => transitionResult = TRUE

\* ---- C29 ------------------------------------------------------------------
\* C29: the ids consumed only grow, by the id of each match as it is made; a
\* match is never made to an id consumed by an earlier disk file, so no id
\* occurs in two matches; and no ambiguous entry lists an id consumed before
\* its file was looked at.
C29_MatchedAtMostOnce ==
    pc = "returned" =>
        LET T == LoopTrace IN
        /\ \A k \in DOMAIN diskFiles :
              LET out == FileOutcome(T, k) IN
              /\ \A m \in Range(out.matches) : m.recordingId \notin T[k].matchedRecordingIds
              /\ T[k + 1].matchedRecordingIds =
                    T[k].matchedRecordingIds \cup { m.recordingId : m \in Range(out.matches) }
              /\ \A a \in Range(out.ambiguousMatches) :
                    Range(a.candidateRecordingIds) \cap T[k].matchedRecordingIds = {}
        /\ Cardinality(MatchedIds) = Len(reconciliation.matches)

\* A disk file was looked at after a recording at its path, or FILE_MISSING
\* with its hash, had been consumed by an earlier file.
C29_Witness ==
    /\ pc = "returned"
    /\ LET T == LoopTrace
       IN  \E k \in DOMAIN diskFiles : \E r \in Range(recordings) :
              /\ r.id \in T[k].matchedRecordingIds
              /\ CandidateFor(r, diskFiles[k])

\* ---- C30 ------------------------------------------------------------------
\* C30: a disk file with more than one available recording at its path
\* yields exactly one ambiguous entry, of reason "path", listing those
\* recordings; it yields no match and no newFiles entry and consumes no
\* recording, whatever FILE_MISSING recordings carry its hash.
C30_PathAmbiguityStops ==
    pc = "returned" =>
        LET T == LoopTrace IN
        \A k \in DOMAIN diskFiles :
            Cardinality(PathCandidatesAt(T, k)) > 1 =>
                LET out == FileOutcome(T, k) IN
                /\ out.matches = <<>>
                /\ out.newFiles = <<>>
                /\ Len(out.ambiguousMatches) = 1
                /\ out.ambiguousMatches[1].reason = "path"
                /\ out.ambiguousMatches[1].filePath = diskFiles[k].filePath
                /\ Range(out.ambiguousMatches[1].candidateRecordingIds)
                      = { recordings[i].id : i \in PathCandidatesAt(T, k) }
                /\ T[k + 1].matchedRecordingIds = T[k].matchedRecordingIds
                /\ \A a \in Range(reconciliation.ambiguousMatches) :
                      a.filePath = diskFiles[k].filePath => a.reason = "path"
                /\ \A m \in Range(reconciliation.matches) : m.filePath # diskFiles[k].filePath

\* A disk file with two recordings at its path, exactly one of them
\* FILE_MISSING with the file's hash.
C30_Witness ==
    /\ pc = "returned"
    /\ LET T == LoopTrace
       IN  \E k \in DOMAIN diskFiles :
              /\ Cardinality(PathCandidatesAt(T, k)) > 1
              /\ Cardinality(HashCandidatesAt(T, k)) = 1
              /\ Len(FileOutcome(T, k).ambiguousMatches) = 1

\* ---- C31 ------------------------------------------------------------------
\* No two rows of the table hold the same filePath.
UniquePaths(table) ==
    \A i, j \in DOMAIN table : table[i].filePath = table[j].filePath => i = j

\* The tables the transaction of this cycle goes through, statement after
\* statement, from the table as it stands.
PendingTransaction ==
    LET dbRows == selectIdentities(db)
        rec    == reconcileLibraryFiles(diskFiles, dbRows)
        marks  == IF Len(rec.unmatchedRecordingIds) > 0
                  THEN selectRecordingsToMarkMissing(rec.unmatchedRecordingIds,
                           missingTransitionCandidates(dbRows), Range(audioFiles))
                  ELSE <<>>
        writes == transactionWrites(rec, dbRows, diskFiles, marks)
    IN  transactionTrace(db, writes, Len(writes))

\* C31: the catalog never holds a path twice: not before a cycle, not after
\* any statement of its transaction (so no statement breaks the unique
\* index on file_path and the cycle is never failed by it), not after the
\* cycle.
C31_PathUniquenessPreserved ==
    /\ UniquePaths(db)
    /\ \A i, j \in DOMAIN dirFiles : dirFiles[i].filePath = dirFiles[j].filePath => i = j
    /\ GuardPassed =>
          \A k \in DOMAIN PendingTransaction :
              /\ UniquePaths(PendingTransaction[k])
              /\ constraintsHold(PendingTransaction[k])

\* A resolved cycle that moved a recording by hash and inserted a row at the
\* path the recording left.
C31_Witness ==
    /\ pc = "done"
    /\ \E i \in HashMatches : \E r \in InsertedRows :
          r.filePath = LoadedRow(reconciliation.matches[i].recordingId).filePath

\* ---- C32 ------------------------------------------------------------------
\* The statements the transaction of this cycle runs, from the table as it
\* stands.
PendingWrites ==
    LET dbRows == selectIdentities(db)
        rec    == reconcileLibraryFiles(diskFiles, dbRows)
        marks  == IF Len(rec.unmatchedRecordingIds) > 0
                  THEN selectRecordingsToMarkMissing(rec.unmatchedRecordingIds,
                           missingTransitionCandidates(dbRows), Range(audioFiles))
                  ELSE <<>>
    IN  transactionWrites(rec, dbRows, diskFiles, marks)

\* C32: every UPDATE of the transaction that sets status sets it, for each
\* row it touches, to a status the row's loaded status may legally move to:
\* IMPORTED on a FILE_MISSING row, or FILE_MISSING on a row whose status
\* allows it.  After a resolved cycle each loaded row has its loaded status
\* or moved along one of those two kinds of edge.
C32_OnlyLegalStatusWrites ==
    /\ GuardPassed =>
          \A k \in DOMAIN PendingWrites :
              LET w == PendingWrites[k] IN
              (w.op = "update" /\ "status" \in DOMAIN w.set) =>
                  \A id \in w.ids :
                      LET from == rowById(db, id).status
                          to   == w.set["status"]
                      IN  /\ canTransition(from, to)
                          /\ \/ (from = "FILE_MISSING" /\ to = "IMPORTED")
                             \/ to = "FILE_MISSING"
    /\ pc = "done" =>
          \A x \in Range(recordings) :
              LET to == StoredRow(x.id).status IN
              \/ to = x.status
              \/ (x.status = "FILE_MISSING" /\ to = "IMPORTED" /\ canTransition(x.status, to))
              \/ (to = "FILE_MISSING" /\ canTransition(x.status, to))

\* A resolved cycle moved a row that was in ERROR to FILE_MISSING.
C32_Witness ==
    /\ pc = "done"
    /\ \E x \in Range(recordings) :
          x.status = "ERROR" /\ StoredRow(x.id).status = "FILE_MISSING"

\* ---- C33 ------------------------------------------------------------------
\* C33: after a resolved cycle, a recording matched by path keeps its
\* filePath; if it was not FILE_MISSING it keeps its status; if it had a
\* hash it keeps that hash, whatever hash the file on disk has now.  Its
\* fileLastCheckedAt is the time of the cycle, and a hash that was null is
\* the file's.
C33_PathMatchFrame ==
    pc = "done" =>
        \A m \in Range(reconciliation.matches) :
            m.reason = "path" =>
                LET before == LoadedRow(m.recordingId)
                    after  == StoredRow(m.recordingId)
                IN  /\ after.filePath = before.filePath
                    /\ after.filePath = m.filePath
                    /\ before.status # "FILE_MISSING" => after.status = before.status
                    /\ before.fileHash # Null => after.fileHash = before.fileHash
                    /\ before.fileHash = Null => after.fileHash = m.fileHash
                    /\ after.fileLastCheckedAt = now

\* A resolved cycle path-matched a TRANSCRIBED recording whose stored hash
\* is not the hash of the file now at its path.
C33_Witness ==
    /\ pc = "done"
    /\ \E m \in Range(reconciliation.matches) :
          /\ m.reason = "path"
          /\ LoadedRow(m.recordingId).status = "TRANSCRIBED"
          /\ LoadedRow(m.recordingId).fileHash # Null
          /\ LoadedRow(m.recordingId).fileHash # m.fileHash
          /\ StoredRow(m.recordingId).fileHash # m.fileHash

\* ---- C34 ------------------------------------------------------------------
\* C34: the commit of a cycle leaves each row it marks FILE_MISSING as it
\* was except for status and updatedAt: same id, filePath, fileHash and
\* fileLastCheckedAt.  The row is then a candidate for a file at its path,
\* and, when it has a hash, for a file with that hash.
C34_MissingTransitionFrame ==
    [][ pc' = "done" =>
          \A id \in Range(toMark') :
              LET before == rowById(db, id)
                  after  == rowById(db', id)
              IN  /\ after = [ before EXCEPT !.status = "FILE_MISSING", !.updatedAt = now ]
                  /\ after.id = before.id
                  /\ after.filePath = before.filePath
                  /\ after.fileHash = before.fileHash
                  /\ after.fileLastCheckedAt = before.fileLastCheckedAt
                  /\ before.status # "FILE_MISSING"
                  /\ CandidateFor(after, [ filePath |-> before.filePath, fileHash |-> "hashB" ])
                  /\ before.fileHash # Null =>
                        CandidateFor(after, [ filePath |-> "/audio/elsewhere.wav",
                                              fileHash |-> before.fileHash ])
      ]_vars

\* A resolved cycle marked a row that has a hash.
C34_Witness ==
    /\ pc = "done"
    /\ \E id \in Range(toMark) :
          /\ StoredRow(id).status = "FILE_MISSING"
          /\ StoredRow(id).fileHash # Null
          /\ StoredRow(id).updatedAt = now
          /\ StoredRow(id).fileLastCheckedAt = earlier

\* ---- C35 ------------------------------------------------------------------
\* id, filePath, fileHash and status of every row are the same in both tables.
SameIdentity(t1, t2) ==
    /\ Len(t1) = Len(t2)
    /\ selectIdentities(t1) = selectIdentities(t2)

\* The cycle before the running one resolved and no probe of it failed.
PreviousCycleClean ==
    /\ started > 1
    /\ Len(log) = started - 1
    /\ log[Len(log)].kind = "completed"
    /\ log[Len(log)].summary.failedCount = 0

\* C35: sync is idempotent on an unchanged world.  When a cycle resolved with
\* no probe failure and the next cycle scans the same directory (again with no
\* probe failure) over the catalog the first one left, the second cycle
\* changes no row's id, filePath, fileHash or status, inserts no row, and
\* reports newCount = updatedCount = missingCount = 0 and the ambiguousCount
\* of the first cycle.
C35_SyncIdempotent ==
    [][ (PreviousCycleClean /\ pc = "probe" /\ pc' = "done" /\ failedPaths = {}) =>
            /\ SameIdentity(db, db')
            /\ summary'.newCount = 0
            /\ summary'.updatedCount = 0
            /\ summary'.missingCount = 0
            /\ summary'.ambiguousCount = log[Len(log)].summary.ambiguousCount ]_vars

\* ---- C36 ------------------------------------------------------------------
\* The directory was read and holds no supported audio file.
EmptyScan ==
    /\ pc = "probe"
    /\ audioFiles = <<>>

\* C36: an empty scan does not trip the circuit breaker.  With zero scanned
\* files the guard is false, the cycle never rejects with the systemic probe
\* error, and when it resolves every row that was not FILE_MISSING is
\* FILE_MISSING afterwards and missingCount is the number of those rows.
C36_EmptyScanMarksAllMissing ==
    /\ [](EmptyScan =>
            ~shouldAbortSyncForProbeFailures(probeCounts(audioFiles, diskFiles, failedPaths)))
    /\ [][ (EmptyScan /\ pc' # pc) =>
              /\ syncError' # systemicProbeError
              /\ pc' = "done" =>
                    /\ Len(db') = Len(db)
                    /\ \A i \in DOMAIN db :
                          /\ db'[i].id = db[i].id
                          /\ db'[i].status = "FILE_MISSING"
                    /\ summary'.missingCount =
                          Cardinality({ i \in DOMAIN db : db[i].status # "FILE_MISSING" })
                    /\ Len(toMark') = summary'.missingCount ]_vars

\* An empty scan resolved and moved two rows to FILE_MISSING.
C36_Witness ==
    /\ pc = "done"
    /\ audioFiles = <<>>
    /\ Len(recordings) = 2
    /\ \A i \in DOMAIN recordings : recordings[i].status # "FILE_MISSING"
    /\ \A i \in DOMAIN db : db[i].status = "FILE_MISSING"
    /\ summary.missingCount = 2

\* ---- C37 ------------------------------------------------------------------
\* The statuses one legal transition away from a status of the set.
Successors(set) == { t \in Statuses : \E s \in set : canTransition(s, t) }

\* The statuses reachable from the set by one to n + 1 legal transitions.
RECURSIVE ReachableWithin(_, _)
ReachableWithin(set, n) ==
    IF n = 0 THEN Successors(set)
    ELSE LET R == ReachableWithin(set, n - 1) IN R \cup Successors(R)

\* The statuses reachable from s by a finite, non-empty sequence of legal
\* transitions (a shortest path visits each of the statuses at most once).
ReachableFrom(s) == ReachableWithin({ s }, Cardinality(Statuses))

\* C37: the transition graph has no terminal or trap state.  Every status
\* has a legal successor other than itself, every status is reachable from
\* every other status by legal transitions, and the only legal transition
\* into IMPORTED is the one from FILE_MISSING.
C37_NoTrapState ==
    pc = "returned" =>
        /\ Cardinality(Statuses) = 9
        /\ \E t \in Statuses \ { fromStatus } : canTransition(fromStatus, t)
        /\ fromStatus # toStatus => toStatus \in ReachableFrom(fromStatus)
        /\ (toStatus = "IMPORTED" /\ transitionResult) => fromStatus = "FILE_MISSING"
        /\ "IMPORTED" \in ReachableFrom("IMPORTED")

\* IMPORTED is asked for from COMPLETED: no direct edge, but a legal path.
C37_Witness ==
    /\ pc = "returned"
    /\ fromStatus = "COMPLETED" /\ toStatus = "IMPORTED"
    /\ transitionResult = FALSE
    /\ toStatus \in ReachableFrom(fromStatus)

\* ---- C38 ------------------------------------------------------------------
\* The stored statuses of the rows whose id is the one asked for (ids are
\* unique, so at most one).
RequestedStatuses == { db[i].status : i \in { j \in DOMAIN db : db[j].id = transcribeId } }

\* C38: POST /api/recordings/:id/transcribe answers 404 for an unknown id,
\* 202 "already_in_progress" for a TRANSCRIBING row, 202 "accepted" exactly
\* for an IMPORTED, TRANSCRIBED or ERROR row, and 409 for every other status
\* (FILE_MISSING included).  Each accepted status has the legal edge to
\* TRANSCRIBING, so the defensive canTransition check (the return at line
\* 107) is never the one taken, and the request leaves the table as it was.
C38_TranscribeAnswers ==
    /\ [](pc = "returned" =>
            LET r == transcribeResponse IN
            /\ RequestedStatuses = {} => r.code = 404
            /\ RequestedStatuses = { "TRANSCRIBING" } =>
                    r.code = 202 /\ r.body = "already_in_progress"
            /\ (r.code = 202 /\ r.body = "accepted") <=>
                    \E st \in { "IMPORTED", "TRANSCRIBED", "ERROR" } : RequestedStatuses = { st }
            /\ \A st \in Statuses \ { "TRANSCRIBING", "IMPORTED", "TRANSCRIBED", "ERROR" } :
                    RequestedStatuses = { st } => r.code = 409
            /\ r.code \in { 404, 202, 409 }
            /\ \A st \in { "IMPORTED", "TRANSCRIBED", "ERROR" } : canTransition(st, "TRANSCRIBING")
            /\ r.line # 107)
    /\ [][ pc' = "returned" => db' = db ]_vars

\* A row in ERROR is accepted for transcription and stays in ERROR.
C38_Witness ==
    /\ pc = "returned"
    /\ RequestedStatuses = { "ERROR" }
    /\ transcribeResponse.code = 202 /\ transcribeResponse.body = "accepted"

\* ---- C39 ------------------------------------------------------------------
\* The decimal number a string of digits writes.
RECURSIVE Decimal(_)
Decimal(str) ==
    IF str = <<>> THEN 0
    ELSE (CHOOSE v \in 0..9 : Digits[v + 1] = Head(str)) * 10 ^ (Len(str) - 1)
         + Decimal(Tail(str))

AllIn(h, from, to, set) == \A i \in from..to : h[i] \in set
DigitChars == Range(Digits)

\* The header read as a single byte range: blanks, the unit "bytes=" in any
\* case, blanks, digits a, a dash, digits b, blanks.  The set holds the pair
\* << a, b >> when the header is written so and is empty when it is not.
WrittenRange(h) ==
    UNION { IF /\ AllIn(h, 1, p - 1, WhiteSpace)
               /\ p + 5 <= Len(h)
               /\ \A i \in 1..6 :
                      h[p + i - 1] \in << { "b", "B" }, { "y", "Y" }, { "t", "T" },
                                          { "e", "E" }, { "s", "S" }, { "=" } >>[i]
            THEN UNION { IF /\ h[d] = "-"
                            /\ \E m \in (p + 6)..d :
                                  /\ AllIn(h, p + 6, m - 1, WhiteSpace)
                                  /\ AllIn(h, m, d - 1, DigitChars)
                         THEN LET m == CHOOSE x \in (p + 6)..d :
                                           /\ AllIn(h, p + 6, x - 1, WhiteSpace)
                                           /\ AllIn(h, x, d - 1, DigitChars)
                              IN  { << SubSeq(h, m, d - 1), SubSeq(h, d + 1, n) >> :
                                      n \in { x \in d..Len(h) :
                                                /\ AllIn(h, d + 1, x, DigitChars)
                                                /\ AllIn(h, x + 1, Len(h), WhiteSpace) } }
                         ELSE {} : d \in (p + 6)..Len(h) }
            ELSE {} : p \in 1..Len(h) }

\* C39: parseSingleByteRange returns null or a range with
\* 0 <= start <= end <= fileSize - 1.  It returns null when fileSize <= 0,
\* when the header is not written as one byte range (wrong unit, malformed
\* or empty spec, several ranges), when both numbers are missing, when the
\* suffix length is zero, when start >= fileSize and when start > end.  An
\* end beyond the last byte is clamped to fileSize - 1, and a suffix longer
\* than the file gives the whole file.
C39_RangeWithinFile ==
    pc = "returned" =>
        LET r == rangeResult
            W == WrittenRange(rangeHeader)
            size == rangeFileSize
        IN  /\ \/ r = NullRange
               \/ /\ r.kind = "range"
                  /\ 0 <= r.start /\ r.start <= r.end /\ r.end <= size - 1
            /\ size <= 0 => r = NullRange
            /\ W = {} => r = NullRange
            /\ \A w \in W :
                  LET a == w[1]  b == w[2] IN
                  /\ (a = <<>> /\ b = <<>>) => r = NullRange
                  /\ (a = <<>> /\ b # <<>> /\ Decimal(b) = 0) => r = NullRange
                  /\ (a # <<>> /\ Decimal(a) >= size) => r = NullRange
                  /\ (a # <<>> /\ b # <<>> /\ Decimal(a) > Decimal(b)) => r = NullRange
                  /\ (size > 0 /\ a # <<>> /\ b # <<>> /\ Decimal(a) < size
                        /\ Decimal(a) <= Decimal(b) /\ Decimal(b) > size - 1) =>
                          r = ByteRange(Decimal(a), size - 1)
                  /\ (size > 0 /\ a = <<>> /\ b # <<>> /\ Decimal(b) > size) =>
                          r = ByteRange(0, size - 1)

\* "bytes=1-11" on a file of 10 bytes: the end is clamped to 9.
C39_Witness ==
    /\ pc = "returned"
    /\ rangeHeader = << "b", "y", "t", "e", "s", "=", "1", "-", "1", "1" >>
    /\ rangeFileSize = 10
    /\ rangeResult = ByteRange(1, 9)
====
